---- MODULE Spec2Model ----
(***************************************************************************)
(* GenOps framework: the deployment pipeline (pipeline.py) orchestrating   *)
(* the risk scorer (risk_scoring.py), the governance engine                *)
(* (governance.py) and the canary rollout controller (canary_rollout.py).  *)
(*                                                                         *)
(* Numbers.  Python floats are modelled as exact fixed-point integers:     *)
(*   - factor scores in units of 1/FactorScale,                            *)
(*   - weights in units of 1/WeightScale,                                  *)
(*   - risk scores in units of 1/ScoreScale  (= FactorScale*WeightScale),  *)
(*   - service budget / failure rate / availability in 1/ServiceScale,     *)
(*   - error and success rates in units of 1/RateScale, latencies in ms.   *)
(* Identifiers.  uuid4 deployment ids are modelled as fresh naturals.      *)
(* Hash.  sha256(...)[:16] is modelled as an ideal (collision-free) digest:*)
(* the tuple of exactly the values that are fed into it.                   *)
(***************************************************************************)
EXTENDS Integers, Sequences, FiniteSets, TLC

\* ------------------------------------------------------------------ bounds
MaxDeploys == 1

\* ------------------------------------------------------------ fixed point
FactorScale  == 3000
WeightScale  == 100
ScoreScale   == FactorScale * WeightScale
ServiceScale == 1000
RateScale    == 1000000

Min(a, b) == IF a <= b THEN a ELSE b
Max(a, b) == IF a >= b THEN a ELSE b

\* ------------------------------------------------------------ models.py
CRITICAL == 1
HIGH     == 2
MEDIUM   == 3
LOW      == 4

\* DeploymentStatus values
PENDING          == "pending"
CONTEXT_GATHERED == "context_gathered"
RISK_ASSESSED    == "risk_assessed"
CANARY_STARTED   == "canary_started"
ROLLED_BACK      == "rolled_back"
COMPLETED        == "completed"
FAILED           == "failed"

\* Service.health_score, times 3*ServiceScale
health_score3(service) ==
    service.error_budget_remaining
      + (ServiceScale - service.recent_failure_rate)
      + service.availability_99d

\* the absent Optional[RiskAssessment] (None)
NoRiskAssessment ==
    [present |-> FALSE, deployment_id |-> 0, risk_score |-> 0,
     risk_level |-> "none", confidence |-> 0, requires_human_review |-> FALSE]

\* Deployment(...) as constructed at pipeline entry
NewDeployment(id, service) ==
    [id |-> id, service_id |-> service.id, status |-> PENDING,
     has_context |-> FALSE, risk_assessment |-> NoRiskAssessment,
     canary_metrics |-> <<>>, completed |-> FALSE,
     rollback_reason |-> [present |-> FALSE],
     audit_trail |-> <<>>]

\* StudyResults()
NewStudyResults ==
    [total_deployments |-> 0, successful_deployments |-> 0,
     failed_deployments |-> 0, rolled_back_deployments |-> 0,
     canary_caught_issues |-> 0, safety_violations |-> 0]

\* ------------------------------------------------------- risk_scoring.py
\* RiskWeights defaults, in 1/WeightScale
DefaultWeights ==
    [service_tier |-> 25, service_health |-> 15, historical_failure_rate |-> 20,
     blast_radius |-> 15, change_complexity |-> 15, timing_risk |-> 10]

\* RISK_THRESHOLDS[level][1], the maximum score of an autonomy level
AutonomyMax(level) ==
    CASE level = "shadow"   -> ScoreScale
      [] level = "assisted" -> (ScoreScale * 3) \div 10
      [] level = "governed" -> (ScoreScale * 6) \div 10
      [] level = "learning" -> (ScoreScale * 8) \div 10

ENHANCED_MONITORING_THRESHOLD == (ScoreScale * 5) \div 10
HUMAN_REVIEW_THRESHOLD        == (ScoreScale * 7) \div 10
BLOCK_THRESHOLD               == (ScoreScale * 9) \div 10

\* factor scores, in 1/FactorScale
calculate_tier_risk(service) ==
    CASE service.tier = CRITICAL -> (FactorScale * 9) \div 10
      [] service.tier = HIGH     -> (FactorScale * 7) \div 10
      [] service.tier = MEDIUM   -> (FactorScale * 4) \div 10
      [] service.tier = LOW      -> (FactorScale * 2) \div 10
      [] OTHER                   -> (FactorScale * 5) \div 10

calculate_health_risk(service) ==
    (FactorScale * 3 * ServiceScale - FactorScale * health_score3(service))
        \div (3 * ServiceScale)

calculate_historical_risk(context) ==
    LET total == context.similar_past_successes + context.similar_past_failures
    IN  IF total = 0
        THEN (FactorScale * 5) \div 10
        ELSE Min((context.similar_past_failures * FactorScale * 15) \div (total * 10),
                 FactorScale)

calculate_blast_radius(service, context) ==
    LET deps == IF service.num_dependencies > 10 THEN (FactorScale * 4) \div 10
                ELSE IF service.num_dependencies > 5 THEN (FactorScale * 2) \div 10
                ELSE IF service.num_dependencies > 0 THEN (FactorScale * 1) \div 10
                ELSE 0
        mig  == IF context.has_db_migration THEN (FactorScale * 3) \div 10 ELSE 0
        cfg  == IF context.has_config_change THEN (FactorScale * 2) \div 10 ELSE 0
    IN  Min(deps + mig + cfg, FactorScale)

calculate_complexity_risk(context) ==
    LET size  == IF context.change_size_lines > 1000 THEN (FactorScale * 40) \div 100
                 ELSE IF context.change_size_lines > 500 THEN (FactorScale * 25) \div 100
                 ELSE IF context.change_size_lines > 200 THEN (FactorScale * 10) \div 100
                 ELSE 0
        files == IF context.files_changed > 50 THEN (FactorScale * 30) \div 100
                 ELSE IF context.files_changed > 20 THEN (FactorScale * 15) \div 100
                 ELSE 0
        hot   == IF context.is_hotfix THEN (FactorScale * 20) \div 100 ELSE 0
    IN  Min(size + files + hot, FactorScale)

calculate_timing_risk(context) ==
    LET off == IF context.time_of_day_hour >= 22 \/ context.time_of_day_hour <= 6
               THEN (FactorScale * 4) \div 10 ELSE 0
        day == IF context.day_of_week = 4 THEN (FactorScale * 3) \div 10
               ELSE IF context.day_of_week >= 5 THEN (FactorScale * 5) \div 10
               ELSE 0
    IN  Min(off + day, FactorScale)

\* the weighted sum, in 1/ScoreScale
weighted_risk_score(weights, service, context) ==
      calculate_tier_risk(service) * weights.service_tier
    + calculate_health_risk(service) * weights.service_health
    + calculate_historical_risk(context) * weights.historical_failure_rate
    + calculate_blast_radius(service, context) * weights.blast_radius
    + calculate_complexity_risk(context) * weights.change_complexity
    + calculate_timing_risk(context) * weights.timing_risk

\* variant: the thresholds are tested from the lowest up
risk_level_of_lowest_first(risk_score) ==
    IF risk_score >= ENHANCED_MONITORING_THRESHOLD THEN "medium"
    ELSE IF risk_score >= HUMAN_REVIEW_THRESHOLD THEN "high"
    ELSE IF risk_score >= BLOCK_THRESHOLD THEN "critical"
    ELSE "low"

\* RiskScorer.calculate_risk_score, lines 205-213
risk_level_of(risk_score) ==
    IF risk_score >= BLOCK_THRESHOLD THEN "critical"
    ELSE IF risk_score >= HUMAN_REVIEW_THRESHOLD THEN "high"
    ELSE IF risk_score >= ENHANCED_MONITORING_THRESHOLD THEN "medium"
    ELSE "low"

\* variant: a score at the autonomy maximum already needs review
requires_human_at_max(risk_score, autonomy_level) ==
    risk_score >= HUMAN_REVIEW_THRESHOLD \/ risk_score >= AutonomyMax(autonomy_level)

requires_human(risk_score, autonomy_level) ==
    risk_score >= HUMAN_REVIEW_THRESHOLD \/ risk_score > AutonomyMax(autonomy_level)

\* RiskScorer.calculate_risk_score
calculate_risk_score(weights, autonomy_level, service, context, deployment_id) ==
    LET risk_score == weighted_risk_score(weights, service, context)
    IN  [present |-> TRUE,
         deployment_id |-> deployment_id,
         risk_score |-> risk_score,
         risk_level |-> risk_level_of(risk_score),
         confidence |-> context.rag_confidence,
         requires_human_review |-> requires_human(risk_score, autonomy_level)]

\* variant: the low-budget advisory fails closed as well
check_error_budget_low_blocks(service) ==
    IF service.error_budget_remaining * 10 < ServiceScale
    THEN <<FALSE, "ERROR_BUDGET_EXHAUSTED">>
    ELSE <<TRUE, "OK: Sufficient error budget available">>

\* RiskScorer.check_error_budget: <<allowed, reason>>
check_error_budget(service) ==
    IF service.error_budget_remaining <= 0
    THEN <<FALSE, "ERROR_BUDGET_EXHAUSTED">>
    ELSE IF service.error_budget_remaining * 10 < ServiceScale
    THEN <<TRUE, "WARNING: Low error budget">>
    ELSE <<TRUE, "OK: Sufficient error budget available">>

\* --------------------------------------------------------- governance.py
\* A policy condition is a free-form string that _evaluate_condition only
\* inspects through substring tests; it is modelled as the set of the
\* recognised fragments the string contains.
FragCritical == "service.tier == ServiceTier.CRITICAL"
FragRisk     == "risk_score > 0.5"
FragFriday   == "day_of_week == 4"
FragHour16   == "time_of_day_hour >= 16"
FragBudget   == "error_budget_remaining <= 0"
FragMigr     == "has_db_migration"
FragTier2    == "tier.value <= 2"
FragSize     == "change_size_lines > 1000"

DEFAULT_POLICIES ==
    << [name |-> "critical_service_human_review",
        condition |-> {FragCritical, FragRisk},
        action |-> "require_approval", severity |-> "high"],
       [name |-> "no_friday_deployments",
        condition |-> {FragFriday, FragHour16},
        action |-> "block", severity |-> "medium"],
       [name |-> "error_budget_protection",
        condition |-> {FragBudget},
        action |-> "block", severity |-> "critical"],
       [name |-> "db_migration_review",
        condition |-> {FragMigr, FragTier2},
        action |-> "require_approval", severity |-> "high"],
       [name |-> "large_change_caution",
        condition |-> {FragSize},
        action |-> "warn", severity |-> "medium"] >>

\* variant: the tier comparison of the first shape is inverted
evaluate_condition_tier_inverted(condition, service, context, risk_score) ==
    IF FragCritical \in condition
    THEN IF service.tier = CRITICAL THEN FALSE
         ELSE IF FragRisk \in condition /\ risk_score <= (ScoreScale * 5) \div 10
         THEN FALSE
         ELSE TRUE
    ELSE IF FragFriday \in condition /\ FragHour16 \in condition
    THEN context.day_of_week = 4 /\ context.time_of_day_hour >= 16
    ELSE IF FragBudget \in condition
    THEN service.error_budget_remaining <= 0
    ELSE IF FragMigr \in condition
    THEN IF context.has_db_migration /\ FragTier2 \in condition
         THEN service.tier <= 2
         ELSE FALSE
    ELSE IF FragSize \in condition
    THEN context.change_size_lines > 1000
    ELSE FALSE

\* GovernanceEngine._evaluate_condition
evaluate_condition(condition, service, context, risk_score) ==
    IF FragCritical \in condition
    THEN IF service.tier # CRITICAL THEN FALSE
         ELSE IF FragRisk \in condition /\ risk_score <= (ScoreScale * 5) \div 10
         THEN FALSE
         ELSE TRUE
    ELSE IF FragFriday \in condition /\ FragHour16 \in condition
    THEN context.day_of_week = 4 /\ context.time_of_day_hour >= 16
    ELSE IF FragBudget \in condition
    THEN service.error_budget_remaining <= 0
    ELSE IF FragMigr \in condition
    THEN IF context.has_db_migration /\ FragTier2 \in condition
         THEN service.tier <= 2
         ELSE FALSE
    ELSE IF FragSize \in condition
    THEN context.change_size_lines > 1000
    ELSE FALSE

EmptyPolicyResult ==
    [policies_evaluated |-> <<>>, policies_violated |-> <<>>,
     actions_required |-> <<>>, warnings |-> <<>>,
     allowed |-> TRUE, requires_approval |-> FALSE]

\* variant: a violated block policy is recorded but leaves allowed untouched
apply_policy_action_block_ignored(results, policy) ==
    LET r1 == [results EXCEPT !.policies_violated = Append(@, policy.name)]
    IN  IF policy.action = "require_approval"
        THEN [r1 EXCEPT !.requires_approval = TRUE,
                        !.actions_required = Append(@,
                            [policy |-> policy.name, action |-> "REQUIRES_APPROVAL",
                             severity |-> policy.severity])]
        ELSE IF policy.action = "warn"
        THEN [r1 EXCEPT !.warnings = Append(@,
                            [policy |-> policy.name, severity |-> policy.severity])]
        ELSE r1

\* one iteration of the loop of evaluate_policies, for a violated policy
apply_policy_action(results, policy) ==
    LET r1 == [results EXCEPT !.policies_violated = Append(@, policy.name)]
    IN  IF policy.action = "block"
        THEN [r1 EXCEPT !.allowed = FALSE,
                        !.actions_required = Append(@,
                            [policy |-> policy.name, action |-> "BLOCKED",
                             severity |-> policy.severity])]
        ELSE IF policy.action = "require_approval"
        THEN [r1 EXCEPT !.requires_approval = TRUE,
                        !.actions_required = Append(@,
                            [policy |-> policy.name, action |-> "REQUIRES_APPROVAL",
                             severity |-> policy.severity])]
        ELSE IF policy.action = "warn"
        THEN [r1 EXCEPT !.warnings = Append(@,
                            [policy |-> policy.name, severity |-> policy.severity])]
        ELSE r1

RECURSIVE evaluate_loop(_, _, _, _, _, _)
evaluate_loop(policies, k, results, service, context, risk_score) ==
    IF k > Len(policies) THEN results
    ELSE LET policy == policies[k]
             r0 == [results EXCEPT !.policies_evaluated = Append(@, policy.name)]
             r1 == IF evaluate_condition(policy.condition, service, context, risk_score)
                   THEN apply_policy_action(r0, policy)
                   ELSE r0
         IN  evaluate_loop(policies, k + 1, r1, service, context, risk_score)

\* variant: only the policies whose condition matched are listed as evaluated
evaluate_policies_lists_violated(policies, service, context, risk_score) ==
    LET r == evaluate_loop(policies, 1, EmptyPolicyResult, service, context, risk_score)
    IN  [r EXCEPT !.policies_evaluated = r.policies_violated]

\* GovernanceEngine.evaluate_policies
evaluate_policies(policies, service, context, risk_score) ==
    evaluate_loop(policies, 1, EmptyPolicyResult, service, context, risk_score)

\* Optional[float] None
None == -1

\* AuditEntry._calculate_hash: the digest of timestamp, deployment id, event
\* type, action and the key-sorted JSON of details (and of nothing else)
calculate_hash(entry) ==
    <<entry.timestamp, entry.deployment_id, entry.event_type, entry.action,
      entry.details>>

\* variant: the hash is taken over a timestamp read a second time
AuditEntry_second_timestamp(timestamp, deployment_id, event_type, actor, action, details, risk_score, confidence, policies_evaluated, policies_violated) ==
    [timestamp |-> timestamp, deployment_id |-> deployment_id,
     event_type |-> event_type, actor |-> actor, action |-> action,
     details |-> details, risk_score |-> risk_score,
     confidence |-> confidence,
     policies_evaluated |-> policies_evaluated,
     policies_violated |-> policies_violated,
     hash |-> <<timestamp + 1, deployment_id, event_type, action, details>>]

\* AuditEntry(...) with __post_init__
AuditEntry(timestamp, deployment_id, event_type, actor, action, details, risk_score, confidence, policies_evaluated, policies_violated) ==
    LET fields == [timestamp |-> timestamp, deployment_id |-> deployment_id,
                   event_type |-> event_type, actor |-> actor, action |-> action,
                   details |-> details, risk_score |-> risk_score,
                   confidence |-> confidence,
                   policies_evaluated |-> policies_evaluated,
                   policies_violated |-> policies_violated]
    IN  [timestamp |-> timestamp, deployment_id |-> deployment_id,
         event_type |-> event_type, actor |-> actor, action |-> action,
         details |-> details, risk_score |-> risk_score,
         confidence |-> confidence,
         policies_evaluated |-> policies_evaluated,
         policies_violated |-> policies_violated,
         hash |-> calculate_hash(fields)]

\* variant: the event is put at the front of the trail
add_audit_event_prepend(dep, now, event_type, details) ==
    [dep EXCEPT !.audit_trail =
        <<[timestamp |-> now, event_type |-> event_type, details |-> details,
           deployment_status |-> dep.status]>> \o @]

\* Deployment.add_audit_event
add_audit_event(dep, now, event_type, details) ==
    [dep EXCEPT !.audit_trail = Append(@,
        [timestamp |-> now, event_type |-> event_type, details |-> details,
         deployment_status |-> dep.status])]

\* GovernanceEngine.log_audit_event on the governance state
\* g = [audit_log, clock, dep]; datetime.now() is read twice (entry, trail)
log_audit_event(g, event_type, action, details, actor, risk_assessment, policies_evaluated, policies_violated) ==
    LET entry == AuditEntry(g.clock, g.dep.id, event_type, actor, action, details,
                     IF risk_assessment.present THEN risk_assessment.risk_score ELSE None,
                     IF risk_assessment.present THEN risk_assessment.confidence ELSE None,
                     policies_evaluated, policies_violated)
    IN  [audit_log |-> Append(g.audit_log, entry),
         clock     |-> g.clock + 2,
         dep       |-> add_audit_event(g.dep, g.clock + 1, event_type, entry)]

\* log_audit_event with the default arguments (actor ai_agent, no risk
\* assessment, no policy lists)
log_event(g, event_type, action, details) ==
    log_audit_event(g, event_type, action, details, "ai_agent",
                    NoRiskAssessment, <<>>, <<>>)

\* next((p for p in self.policies if p.name == policy_name), None)
policy_named(policies, policy_name) ==
    LET idx == {k \in 1..Len(policies) : policies[k].name = policy_name}
    IN  IF idx = {} THEN [found |-> FALSE, action |-> "none"]
        ELSE LET k == CHOOSE m \in idx : \A n \in idx : m <= n
             IN  [found |-> TRUE, action |-> policies[k].action]

\* GovernanceEngine.check_safety_violation
check_safety_violation(log, policies, dep) ==
    \E k \in 1..Len(log) :
        /\ log[k].deployment_id = dep.id
        /\ \E j \in 1..Len(log[k].policies_violated) :
              LET policy == policy_named(policies, log[k].policies_violated[j])
              IN  policy.found /\ policy.action = "block" /\ dep.status = COMPLETED

\* ------------------------------------------------------ canary_rollout.py
\* SLOConfig defaults (rates in 1/RateScale, latencies in ms)
DefaultSLOConfig ==
    [error_rate_threshold |-> 20000, latency_p50_threshold_ms |-> 150,
     latency_p99_threshold_ms |-> 600, success_rate_threshold |-> 980000]

\* traffic_percentage in percent (1.00 = 100)
DEFAULT_STAGES ==
    << [name |-> "1%",   traffic_percentage |-> 1,   min_duration_seconds |-> 300, max_duration_seconds |-> 600],
       [name |-> "5%",   traffic_percentage |-> 5,   min_duration_seconds |-> 300, max_duration_seconds |-> 600],
       [name |-> "25%",  traffic_percentage |-> 25,  min_duration_seconds |-> 300, max_duration_seconds |-> 900],
       [name |-> "50%",  traffic_percentage |-> 50,  min_duration_seconds |-> 300, max_duration_seconds |-> 900],
       [name |-> "100%", traffic_percentage |-> 100, min_duration_seconds |-> 0,   max_duration_seconds |-> 0] >>

HIGH_RISK_STAGES ==
    << [name |-> "1%",   traffic_percentage |-> 1,   min_duration_seconds |-> 600, max_duration_seconds |-> 900],
       [name |-> "2%",   traffic_percentage |-> 2,   min_duration_seconds |-> 300, max_duration_seconds |-> 600],
       [name |-> "5%",   traffic_percentage |-> 5,   min_duration_seconds |-> 300, max_duration_seconds |-> 600],
       [name |-> "10%",  traffic_percentage |-> 10,  min_duration_seconds |-> 300, max_duration_seconds |-> 600],
       [name |-> "25%",  traffic_percentage |-> 25,  min_duration_seconds |-> 300, max_duration_seconds |-> 900],
       [name |-> "50%",  traffic_percentage |-> 50,  min_duration_seconds |-> 300, max_duration_seconds |-> 900],
       [name |-> "100%", traffic_percentage |-> 100, min_duration_seconds |-> 0,   max_duration_seconds |-> 0] >>

\* variant: every risk level gets the default ladder
get_stages_always_default(risk_level) == DEFAULT_STAGES

\* variant: only the High level gets the extended ladder
get_stages_high_only(risk_level) ==
    IF risk_level = "high" THEN HIGH_RISK_STAGES ELSE DEFAULT_STAGES

\* CanaryRollout.get_stages
get_stages(risk_level) ==
    IF risk_level \in {"high", "critical"} THEN HIGH_RISK_STAGES ELSE DEFAULT_STAGES

\* CanaryRollout() / CanaryRollout.reset: the controller's own state
NewCanaryRollout ==
    [current_stage_index |-> 0, rollback_triggered |-> FALSE,
     rollback_reason |-> [present |-> FALSE]]

\* CanaryRollout.simulate_stage_metrics.  rnd carries the values the random
\* module returns: spike (random() < 0.0065), the uniform multipliers in
\* hundredths, and whether randint picks the maximum duration.
simulate_stage_metrics(slo, stage, service, risk_assessment, introduce_failure, rnd) ==
    LET h3 == health_score3(service)
        \* health_factor = 0.9 + health*0.1, times 30*ServiceScale
        hf == 27 * ServiceScale + h3
        \* base_error_rate * risk_factor * u, with base_error_rate = 0.003
        \* (30 * 100 in 1/RateScale) and risk_factor = 1.0 + risk_score*0.15
        e0  == IF rnd.spike
               THEN (slo.error_rate_threshold * rnd.u_err) \div 100
               ELSE 30 * rnd.u_err
                    + (9 * rnd.u_err * risk_assessment.risk_score) \div (2 * ScoreScale)
        p50 == IF rnd.spike
               THEN (slo.latency_p50_threshold_ms * rnd.u_p50) \div 100
               ELSE (50 * 30 * ServiceScale * rnd.u_p50) \div (hf * 100)
        q0  == IF rnd.spike
               THEN (slo.latency_p99_threshold_ms * rnd.u_p99) \div 100
               ELSE (150 * 30 * ServiceScale * rnd.u_p99) \div (hf * 100)
        error_rate == IF introduce_failure
                      THEN (slo.error_rate_threshold * rnd.u_fail_err) \div 100
                      ELSE e0
        p99 == IF introduce_failure
               THEN (slo.latency_p99_threshold_ms * rnd.u_fail_p99) \div 100
               ELSE q0
        success_rate == RateScale - error_rate
        slo_violations ==
              (IF error_rate > slo.error_rate_threshold THEN 1 ELSE 0)
            + (IF p50 > slo.latency_p50_threshold_ms THEN 1 ELSE 0)
            + (IF p99 > slo.latency_p99_threshold_ms THEN 1 ELSE 0)
            + (IF success_rate < slo.success_rate_threshold THEN 1 ELSE 0)
    IN  [stage |-> stage.name,
         traffic_percentage |-> stage.traffic_percentage,
         duration_seconds |-> IF rnd.max_duration
                              THEN Max(stage.min_duration_seconds, stage.max_duration_seconds)
                              ELSE stage.min_duration_seconds,
         error_rate |-> error_rate,
         latency_p50_ms |-> p50,
         latency_p99_ms |-> p99,
         success_rate |-> success_rate,
         slo_violations |-> slo_violations]

\* variant: a value exactly at its threshold counts as a violation
check_slo_compliance_strict(slo, metrics) ==
    LET v1 == IF metrics.error_rate >= slo.error_rate_threshold
              THEN <<"error_rate">> ELSE <<>>
        v2 == IF metrics.latency_p50_ms >= slo.latency_p50_threshold_ms
              THEN Append(v1, "latency_p50") ELSE v1
        v3 == IF metrics.latency_p99_ms >= slo.latency_p99_threshold_ms
              THEN Append(v2, "latency_p99") ELSE v2
        v4 == IF metrics.success_rate <= slo.success_rate_threshold
              THEN Append(v3, "success_rate") ELSE v3
    IN  <<Len(v4) = 0, v4>>

\* CanaryRollout.check_slo_compliance: <<compliant, violations>>; a violation
\* message is modelled by the name of the clause that failed
check_slo_compliance(slo, metrics) ==
    LET v1 == IF metrics.error_rate > slo.error_rate_threshold
              THEN <<"error_rate">> ELSE <<>>
        v2 == IF metrics.latency_p50_ms > slo.latency_p50_threshold_ms
              THEN Append(v1, "latency_p50") ELSE v1
        v3 == IF metrics.latency_p99_ms > slo.latency_p99_threshold_ms
              THEN Append(v2, "latency_p99") ELSE v2
        v4 == IF metrics.success_rate < slo.success_rate_threshold
              THEN Append(v3, "success_rate") ELSE v3
    IN  <<Len(v4) = 0, v4>>

\* variant: a failed check marks the controller as rolled back
check_slo_compliance_call_marks(self, slo, metrics) ==
    LET result == check_slo_compliance(slo, metrics)
    IN  [self |-> IF result[1] THEN self
                  ELSE [self EXCEPT !.rollback_triggered = TRUE,
                                    !.rollback_reason =
                                        [present |-> TRUE, value |-> result[2]]],
         metrics |-> metrics, result |-> result]

\* a call self.check_slo_compliance(metrics) as a whole: the controller and
\* the metrics object after the call, and the returned pair
check_slo_compliance_call(self, slo, metrics) ==
    [self |-> self, metrics |-> metrics, result |-> check_slo_compliance(slo, metrics)]

\* variant: a stage succeeds whatever its metrics
execute_stage_ignores_slo(slo, stage, service, risk_assessment, force_failure, rnd) ==
    [outcome |-> "success",
     metrics |-> simulate_stage_metrics(slo, stage, service, risk_assessment,
                                        force_failure, rnd),
     failure_reason |-> [present |-> FALSE]]

\* variant: the request to force a failure is not passed on
execute_stage_unforced(slo, stage, service, risk_assessment, force_failure, rnd) ==
    LET metrics == simulate_stage_metrics(slo, stage, service, risk_assessment,
                                          FALSE, rnd)
        check == check_slo_compliance(slo, metrics)
    IN  IF ~check[1]
        THEN [outcome |-> "rollback", metrics |-> metrics,
              failure_reason |-> [present |-> TRUE, stage |-> stage.name,
                                  violations |-> check[2]]]
        ELSE [outcome |-> "success", metrics |-> metrics,
              failure_reason |-> [present |-> FALSE]]

\* CanaryRollout.execute_stage: [outcome, metrics, failure_reason]
execute_stage(slo, stage, service, risk_assessment, force_failure, rnd) ==
    LET metrics == simulate_stage_metrics(slo, stage, service, risk_assessment,
                                          force_failure, rnd)
        check == check_slo_compliance(slo, metrics)
    IN  IF ~check[1]
        THEN [outcome |-> "rollback", metrics |-> metrics,
              failure_reason |-> [present |-> TRUE, stage |-> stage.name,
                                  violations |-> check[2]]]
        ELSE [outcome |-> "success", metrics |-> metrics,
              failure_reason |-> [present |-> FALSE]]

\* KillSwitch(): thresholds (error rate in 1/RateScale) and the counter
DefaultKillSwitch ==
    [error_rate_kill_threshold |-> 50000, latency_spike_multiplier |-> 5,
     consecutive_failures |-> 3, failure_count |-> 0]

\* variant: the two immediate conditions need the threshold to be exceeded
KillSwitch_check_strict(ks, metrics, baseline_latency_p99) ==
    IF metrics.error_rate > ks.error_rate_kill_threshold
    THEN [should_kill |-> TRUE, reason |-> "error_rate", ks |-> ks]
    ELSE IF metrics.latency_p99_ms > baseline_latency_p99 * ks.latency_spike_multiplier
    THEN [should_kill |-> TRUE, reason |-> "latency_spike", ks |-> ks]
    ELSE IF metrics.slo_violations > 0
    THEN LET n == ks.failure_count + 1
         IN  IF n >= ks.consecutive_failures
             THEN [should_kill |-> TRUE, reason |-> "consecutive",
                   ks |-> [ks EXCEPT !.failure_count = n]]
             ELSE [should_kill |-> FALSE, reason |-> "None",
                   ks |-> [ks EXCEPT !.failure_count = n]]
    ELSE [should_kill |-> FALSE, reason |-> "None",
          ks |-> [ks EXCEPT !.failure_count = 0]]

\* KillSwitch.check: [should_kill, reason, ks], ks the kill switch afterwards
KillSwitch_check(ks, metrics, baseline_latency_p99) ==
    IF metrics.error_rate >= ks.error_rate_kill_threshold
    THEN [should_kill |-> TRUE, reason |-> "error_rate", ks |-> ks]
    ELSE IF metrics.latency_p99_ms >= baseline_latency_p99 * ks.latency_spike_multiplier
    THEN [should_kill |-> TRUE, reason |-> "latency_spike", ks |-> ks]
    ELSE IF metrics.slo_violations > 0
    THEN LET n == ks.failure_count + 1
         IN  IF n >= ks.consecutive_failures
             THEN [should_kill |-> TRUE, reason |-> "consecutive",
                   ks |-> [ks EXCEPT !.failure_count = n]]
             ELSE [should_kill |-> FALSE, reason |-> "None",
                   ks |-> [ks EXCEPT !.failure_count = n]]
    ELSE [should_kill |-> FALSE, reason |-> "None",
          ks |-> [ks EXCEPT !.failure_count = 0]]

\* KillSwitch.reset
KillSwitch_reset(ks) == [ks EXCEPT !.failure_count = 0]

\* ---------------------------------------------------------------- inputs
\* PipelineConfig values a pipeline is constructed with
AutonomyLevels == {"governed", "assisted"}

AllPillars(cfg) ==
    /\ cfg.enable_context_rag
    /\ cfg.enable_risk_scoring
    /\ cfg.enable_canary
    /\ cfg.enable_governance

\* the pillars a configuration switches off
Disabled(cfg) ==
    {f \in {"enable_context_rag", "enable_risk_scoring", "enable_canary",
            "enable_governance"} : ~cfg[f]}

\* under the default autonomy level: the full pipeline with and without
\* auto-approval and every auto-approving pipeline with one pillar switched
\* off; under the other level: the full auto-approving pipeline
Configs ==
    {cfg \in [autonomy_level : AutonomyLevels,
              enable_context_rag : BOOLEAN, enable_risk_scoring : BOOLEAN,
              enable_canary : BOOLEAN, enable_governance : BOOLEAN,
              simulate_human_approval : BOOLEAN] :
        \/ cfg.autonomy_level = "governed" /\ AllPillars(cfg)
        \/ cfg.autonomy_level = "governed" /\ Cardinality(Disabled(cfg)) = 1
                                           /\ cfg.simulate_human_approval
        \/ AllPillars(cfg) /\ cfg.simulate_human_approval}

\* Service objects passed to deploy
Services ==
    { [id |-> "svc-pay", name |-> "payment-gateway", tier |-> CRITICAL,
       num_dependencies |-> 12, error_budget_remaining |-> 50,
       recent_failure_rate |-> 1000, availability_99d |-> 0],
      [id |-> "svc-auth", name |-> "auth-service", tier |-> CRITICAL,
       num_dependencies |-> 3, error_budget_remaining |-> 0,
       recent_failure_rate |-> 0, availability_99d |-> 999],
      [id |-> "svc-api", name |-> "user-api", tier |-> HIGH,
       num_dependencies |-> 12, error_budget_remaining |-> 50,
       recent_failure_rate |-> 1000, availability_99d |-> 0],
      [id |-> "svc-log", name |-> "logging-agent", tier |-> LOW,
       num_dependencies |-> 0, error_budget_remaining |-> 1000,
       recent_failure_rate |-> 0, availability_99d |-> 999] }

\* DeploymentContext objects passed to deploy
Contexts ==
    { \* small change, Wednesday 10h
      [change_size_lines |-> 100, files_changed |-> 5, has_db_migration |-> FALSE,
       has_config_change |-> FALSE, is_hotfix |-> FALSE,
       time_of_day_hour |-> 10, day_of_week |-> 2,
       similar_past_failures |-> 0, similar_past_successes |-> 0, rag_confidence |-> 0],
      \* large hotfix without migration, Saturday 23h
      [change_size_lines |-> 1500, files_changed |-> 60, has_db_migration |-> FALSE,
       has_config_change |-> TRUE, is_hotfix |-> TRUE,
       time_of_day_hour |-> 23, day_of_week |-> 5,
       similar_past_failures |-> 10, similar_past_successes |-> 0, rag_confidence |-> 60],
      \* large migration, Friday 17h
      [change_size_lines |-> 1500, files_changed |-> 60, has_db_migration |-> TRUE,
       has_config_change |-> TRUE, is_hotfix |-> TRUE,
       time_of_day_hour |-> 17, day_of_week |-> 4,
       similar_past_failures |-> 10, similar_past_successes |-> 0, rag_confidence |-> 60],
      \* small migration, Wednesday 10h
      [change_size_lines |-> 100, files_changed |-> 5, has_db_migration |-> TRUE,
       has_config_change |-> FALSE, is_hotfix |-> FALSE,
       time_of_day_hour |-> 10, day_of_week |-> 2,
       similar_past_failures |-> 0, similar_past_successes |-> 0, rag_confidence |-> 0] }

\* simulate_failure_stage arguments (None or a stage index)
FailureStages == {None, 1}

\* the history generated when the pipeline is constructed, represented by
\* what retrieve_similar_deployments finds in it: failures, successes among
\* the top matches and the confidence in percent
Histories ==
    { [failures |-> 0,  successes |-> 0, confidence |-> 30],
      [failures |-> 10, successes |-> 0, confidence |-> 95] }

\* values drawn from the random module during one stage
StageDraws ==
    { [spike |-> FALSE, u_err |-> 100, u_p50 |-> 100, u_p99 |-> 100,
       u_fail_err |-> 150, u_fail_p99 |-> 120, max_duration |-> FALSE],
      [spike |-> TRUE,  u_err |-> 110, u_p50 |-> 110, u_p99 |-> 110,
       u_fail_err |-> 500, u_fail_p99 |-> 300, max_duration |-> FALSE] }

\* ----------------------------------------------------------------- state
VARIABLES
    config,       \* GenOpsPipeline.config
    deployment_history, \* GenOpsPipeline.context_ingestion.deployment_history
    audit_log,    \* GenOpsPipeline.governance.audit_log
    clock,        \* datetime.now()
    deployment,   \* the Deployment objects, by id
    deployments,  \* GenOpsPipeline.deployments (ids)
    results,      \* GenOpsPipeline.results
    canary,       \* GenOpsPipeline.canary_rollout
    calls,        \* the deploy calls: position and local variables
    tampered      \* indices of audit-log entries modified after creation

vars == <<config, deployment_history, audit_log, clock, deployment, deployments, results, canary,
          calls, tampered>>

\* GenOpsPipeline.__init__
Init ==
    /\ config \in Configs
    /\ deployment_history \in Histories
    /\ audit_log = <<>>
    /\ clock = 0
    /\ deployment = <<>>
    /\ deployments = <<>>
    /\ results = NewStudyResults
    /\ canary = NewCanaryRollout
    /\ calls = <<>>
    /\ tampered = {}

\* ------------------------------------------------------------ pipeline.py
\* the policies and weights the pipeline's pillars are constructed with
pipeline_policies == DEFAULT_POLICIES
pipeline_weights  == DefaultWeights
pipeline_slo      == DefaultSLOConfig

\* the places of a deploy call at which an unexpected fault can be raised
FaultPoints ==
    {"create", "log_started", "context", "risk", "budget", "governance",
     "gate", "canary", "stage", "rollout_return", "complete", "except"}

\* the faults of one call: none, one, or one in the try block followed by
\* one in the except handler
FaultSets ==
    {{}} \cup {{p} : p \in FaultPoints}
         \cup {{p, "except"} : p \in FaultPoints \ {"create", "log_started", "except"}}

\* the places of a deploy call lexically inside its try block
InTry ==
    {"context", "risk", "budget", "governance", "gate", "canary", "stage",
     "rollout_return", "complete"}

\* the local variables of a deploy call at its first statement
NewCall(service, context, failure_stage, faults) ==
    [pc |-> "log_started", outcome |-> "running",
     service |-> service, context |-> context,
     simulate_failure_stage |-> failure_stage,
     faults |-> faults,                      \* where a fault will be raised
     risk_assessment |-> NoRiskAssessment,   \* present = the local is bound
     policy_result |-> EmptyPolicyResult,
     stages |-> <<>>, i |-> 0, metrics_history |-> <<>>,
     final_status |-> COMPLETED,
     error |-> "none"]

Governance(c) == [audit_log |-> audit_log, clock |-> clock, dep |-> deployment[c]]

Commit(c, g) ==
    /\ audit_log' = g.audit_log
    /\ clock' = g.clock
    /\ deployment' = [deployment EXCEPT ![c] = g.dep]

Running(c) ==
    /\ c \in 1..Len(calls)
    /\ calls[c].outcome = "running"

At(c, pc) == Running(c) /\ calls[c].pc = pc /\ pc \notin calls[c].faults

Goto(c, pc) == calls' = [calls EXCEPT ![c].pc = pc]

Return(call) == [call EXCEPT !.pc = "done", !.outcome = "returned"]

\* variant: a rollback is counted as a failure as well
record_result_rollback_as_failure(res, log, dep, success, failed, rolled_back, canary_caught) ==
    [total_deployments |-> res.total_deployments + 1,
     successful_deployments |-> res.successful_deployments + (IF success THEN 1 ELSE 0),
     failed_deployments |-> res.failed_deployments + (IF failed \/ rolled_back THEN 1 ELSE 0),
     rolled_back_deployments |-> res.rolled_back_deployments + (IF rolled_back THEN 1 ELSE 0),
     canary_caught_issues |-> res.canary_caught_issues + (IF canary_caught THEN 1 ELSE 0),
     safety_violations |-> res.safety_violations +
         (IF check_safety_violation(log, pipeline_policies, dep) THEN 1 ELSE 0)]

\* variant: a failed deployment is left out of the total
record_result_failed_uncounted(res, log, dep, success, failed, rolled_back, canary_caught) ==
    [total_deployments |-> res.total_deployments + (IF failed THEN 0 ELSE 1),
     successful_deployments |-> res.successful_deployments + (IF success THEN 1 ELSE 0),
     failed_deployments |-> res.failed_deployments + (IF failed THEN 1 ELSE 0),
     rolled_back_deployments |-> res.rolled_back_deployments + (IF rolled_back THEN 1 ELSE 0),
     canary_caught_issues |-> res.canary_caught_issues + (IF canary_caught THEN 1 ELSE 0),
     safety_violations |-> res.safety_violations +
         (IF check_safety_violation(log, pipeline_policies, dep) THEN 1 ELSE 0)]

\* GenOpsPipeline._record_result on the counters, given the audit log and the
\* deployment at the time of the call
record_result(res, log, dep, success, failed, rolled_back, canary_caught) ==
    [total_deployments |-> res.total_deployments + 1,
     successful_deployments |-> res.successful_deployments + (IF success THEN 1 ELSE 0),
     failed_deployments |-> res.failed_deployments + (IF failed THEN 1 ELSE 0),
     rolled_back_deployments |-> res.rolled_back_deployments + (IF rolled_back THEN 1 ELSE 0),
     canary_caught_issues |-> res.canary_caught_issues + (IF canary_caught THEN 1 ELSE 0),
     safety_violations |-> res.safety_violations +
         (IF check_safety_violation(log, pipeline_policies, dep) THEN 1 ELSE 0)]

\* deploy, lines 104-109: the Deployment record is created.  Calls of one
\* pipeline are made one after the other.
CanCall ==
    /\ Len(calls) < MaxDeploys
    /\ \A c \in 1..Len(calls) : calls[c].outcome # "running"

DeployCreate(service, context, failure_stage, faults) ==
    /\ CanCall
    /\ "create" \notin faults
    /\ LET id == Len(calls) + 1
       IN  /\ calls' = Append(calls, NewCall(service, context, failure_stage, faults))
           /\ deployment' = deployment @@ (id :> NewDeployment(id, service))
    /\ UNCHANGED <<config, deployment_history, audit_log, clock, deployments, results, canary, tampered>>

\* deploy, lines 111-116: the first audit event, before the try block
LogStarted(c) ==
    /\ At(c, "log_started")
    /\ Commit(c, log_event(Governance(c), "deployment_started", "initialize",
                           [service |-> calls[c].service.name, version |-> "1.0.0"]))
    /\ Goto(c, "context")
    /\ UNCHANGED <<config, deployment_history, deployments, results, canary, tampered>>

\* ContextIngestion.retrieve_similar_deployments: the matches found in the
\* history and the confidence, 30 without a match and at most 98
retrieve_similar_deployments(history, service, context) ==
    IF history.failures + history.successes = 0
    THEN [history EXCEPT !.confidence = 30]
    ELSE [history EXCEPT !.confidence = Min(@, 98)]

\* ContextIngestion.gather_context: the fields it writes into the context
gather_context(context, rag) ==
    [context EXCEPT !.similar_past_failures = rag.failures,
                    !.similar_past_successes = rag.successes,
                    !.rag_confidence = rag.confidence]

\* deploy, lines 119-134: pillar 1
ContextStep(c) ==
    /\ At(c, "context")
    /\ IF config.enable_context_rag
       THEN LET rag == retrieve_similar_deployments(deployment_history,
                           calls[c].service, calls[c].context)
                d1 == [deployment[c] EXCEPT !.has_context = TRUE,
                                            !.status = CONTEXT_GATHERED]
                n  == rag.failures + rag.successes
                g1 == log_event([Governance(c) EXCEPT !.dep = d1],
                         "context_gathered", "rag_retrieval",
                         [similar_deployments |-> n,
                          historical_success_rate |->
                              IF n = 0 THEN 50 ELSE (100 * rag.successes) \div n,
                          confidence |-> rag.confidence])
            IN  /\ Commit(c, g1)
                /\ calls' = [calls EXCEPT ![c].pc = "risk",
                                          ![c].context = gather_context(@, rag)]
       ELSE /\ Goto(c, "risk")
            /\ UNCHANGED <<audit_log, clock, deployment>>
    /\ UNCHANGED <<config, deployment_history, deployments, results, canary, tampered>>

\* RiskAssessment.to_dict
to_dict(ra) ==
    [deployment_id |-> ra.deployment_id, risk_score |-> ra.risk_score,
     risk_level |-> ra.risk_level, confidence |-> ra.confidence,
     requires_human_review |-> ra.requires_human_review]

\* deploy, lines 137-150: pillar 2, the risk assessment
RiskStep(c) ==
    /\ At(c, "risk")
    /\ IF config.enable_risk_scoring
       THEN LET ra == calculate_risk_score(pipeline_weights, config.autonomy_level,
                          calls[c].service, calls[c].context, deployment[c].id)
                d1 == [deployment[c] EXCEPT !.risk_assessment = ra,
                                            !.status = RISK_ASSESSED]
                g1 == log_audit_event([Governance(c) EXCEPT !.dep = d1],
                          "risk_assessed", "risk_scoring", to_dict(ra),
                          "ai_agent", ra, <<>>, <<>>)
            IN  /\ Commit(c, g1)
                /\ calls' = [calls EXCEPT ![c].pc = "budget",
                                          ![c].risk_assessment = ra]
       ELSE /\ Goto(c, "governance")
            /\ UNCHANGED <<audit_log, clock, deployment>>
    /\ UNCHANGED <<config, deployment_history, deployments, results, canary, tampered>>

\* deploy, lines 152-164: the error-budget gate
BudgetStep(c) ==
    /\ At(c, "budget")
    /\ LET budget == check_error_budget(calls[c].service)
       IN  IF ~budget[1]
           THEN LET d1 == [deployment[c] EXCEPT !.status = FAILED, !.completed = TRUE]
                    g1 == log_event([Governance(c) EXCEPT !.dep = d1],
                              "deployment_blocked", "error_budget_exhausted",
                              [reason |-> budget[2]])
                IN  /\ Commit(c, g1)
                    /\ results' = record_result(results, g1.audit_log, g1.dep,
                                                FALSE, TRUE, FALSE, FALSE)
                    /\ calls' = [calls EXCEPT ![c] = Return(@)]
           ELSE /\ Goto(c, "governance")
                /\ UNCHANGED <<audit_log, clock, deployment, results>>
    /\ UNCHANGED <<config, deployment_history, deployments, canary, tampered>>

\* deploy, lines 167-180: pillar 4, policy evaluation.  Reading the local
\* risk_assessment raises UnboundLocalError when pillar 2 never assigned it.
GovernanceStep(c) ==
    /\ At(c, "governance")
    /\ IF ~config.enable_governance
       THEN /\ Goto(c, "canary")
            /\ UNCHANGED <<audit_log, clock, deployment>>
       ELSE IF ~calls[c].risk_assessment.present
       THEN /\ calls' = [calls EXCEPT ![c].pc = "except",
                                      ![c].error = "UnboundLocalError"]
            /\ UNCHANGED <<audit_log, clock, deployment>>
       ELSE LET pr == evaluate_policies(pipeline_policies, calls[c].service,
                          calls[c].context, calls[c].risk_assessment.risk_score)
                g1 == log_audit_event(Governance(c), "policies_evaluated",
                          "governance_check", pr, "ai_agent", NoRiskAssessment,
                          pr.policies_evaluated, pr.policies_violated)
            IN  /\ Commit(c, g1)
                /\ calls' = [calls EXCEPT ![c].pc = "gate", ![c].policy_result = pr]
    /\ UNCHANGED <<config, deployment_history, deployments, results, canary, tampered>>

\* variant: the approval check comes before the block check
gate_outcome_approval_first(pr, simulate_human_approval) ==
    IF pr.requires_approval
    THEN IF simulate_human_approval THEN "approved" ELSE "awaiting"
    ELSE IF ~pr.allowed THEN "blocked"
    ELSE "pass"

\* variant: a required approval that is not simulated does not stop deploy
gate_outcome_no_wait(pr, simulate_human_approval) ==
    IF ~pr.allowed THEN "blocked"
    ELSE IF pr.requires_approval /\ simulate_human_approval THEN "approved"
    ELSE "pass"

\* deploy, lines 182-211: the decision taken on the policy result
gate_outcome(pr, simulate_human_approval) ==
    IF ~pr.allowed THEN "blocked"
    ELSE IF pr.requires_approval
    THEN IF simulate_human_approval THEN "approved" ELSE "awaiting"
    ELSE "pass"

\* variant: the approval is logged with the default actor
approval_actor_default == "ai_agent"

\* deploy, line 201: the actor of the simulated approval
approval_actor == "human_reviewer"

\* deploy, lines 182-211: block, approval or pass
GateStep(c) ==
    /\ At(c, "gate")
    /\ LET pr == calls[c].policy_result
           outcome == gate_outcome(pr, config.simulate_human_approval)
       IN  IF outcome = "blocked"
           THEN LET d1 == [deployment[c] EXCEPT !.status = FAILED, !.completed = TRUE]
                    g1 == log_event([Governance(c) EXCEPT !.dep = d1],
                              "deployment_blocked", "policy_violation",
                              [actions_required |-> pr.actions_required])
                IN  /\ Commit(c, g1)
                    /\ results' = record_result(results, g1.audit_log, g1.dep,
                                                FALSE, TRUE, FALSE, FALSE)
                    /\ calls' = [calls EXCEPT ![c] = Return(@)]
           ELSE IF outcome = "approved"
           THEN /\ Commit(c, log_audit_event(Governance(c), "human_approval",
                              "approved", [simulated |-> TRUE], approval_actor,
                              NoRiskAssessment, <<>>, <<>>))
                /\ Goto(c, "canary")
                /\ UNCHANGED results
           ELSE IF outcome = "awaiting"
           THEN LET d1 == [deployment[c] EXCEPT !.status = PENDING]
                IN  /\ Commit(c, log_event([Governance(c) EXCEPT !.dep = d1],
                              "awaiting_approval", "require_human_review",
                              [items |-> pr.actions_required]))
                    /\ calls' = [calls EXCEPT ![c] = Return(@)]
                    /\ UNCHANGED results
           ELSE /\ Goto(c, "canary")
                /\ UNCHANGED <<audit_log, clock, deployment, results>>
    /\ UNCHANGED <<config, deployment_history, deployments, canary, tampered>>

\* deploy, lines 214-222 and execute_rollout, lines 243-245: pillar 3 starts.
\* The arguments of execute_rollout are evaluated after reset(); reading the
\* unbound local risk_assessment raises UnboundLocalError.
CanaryStart(c) ==
    /\ At(c, "canary")
    /\ IF ~config.enable_canary
       THEN /\ Goto(c, "complete")
            /\ UNCHANGED <<deployment, canary>>
       ELSE /\ deployment' = [deployment EXCEPT ![c].status = CANARY_STARTED]
            /\ canary' = NewCanaryRollout
            /\ IF ~calls[c].risk_assessment.present
               THEN calls' = [calls EXCEPT ![c].pc = "except",
                                           ![c].error = "UnboundLocalError"]
               ELSE calls' = [calls EXCEPT
                       ![c].pc = "stage",
                       ![c].stages = get_stages(calls[c].risk_assessment.risk_level),
                       ![c].i = 0,
                       ![c].metrics_history = <<>>,
                       ![c].final_status = COMPLETED]
    /\ UNCHANGED <<config, deployment_history, audit_log, clock, deployments, results, tampered>>

\* execute_rollout, lines 247-265: one iteration of the loop over the stages
StageStep(c, rnd) ==
    /\ At(c, "stage")
    /\ LET call  == calls[c]
           stage == call.stages[call.i + 1]
           force_failure == call.simulate_failure_stage # None
                            /\ call.i = call.simulate_failure_stage
           r == execute_stage(pipeline_slo, stage, call.service,
                              call.risk_assessment, force_failure, rnd)
           history == Append(call.metrics_history, r.metrics)
       IN  IF r.outcome = "rollback"
           THEN /\ canary' = [canary EXCEPT !.rollback_triggered = TRUE,
                                            !.rollback_reason = r.failure_reason]
                /\ calls' = [calls EXCEPT ![c].metrics_history = history,
                                          ![c].final_status = ROLLED_BACK,
                                          ![c].pc = "rollout_return"]
           ELSE /\ UNCHANGED canary
                /\ calls' = [calls EXCEPT
                       ![c].metrics_history = history,
                       ![c].i = IF stage.traffic_percentage >= 100 THEN @ ELSE @ + 1,
                       ![c].pc = IF stage.traffic_percentage >= 100
                                    \/ call.i + 1 = Len(call.stages)
                                 THEN "rollout_return" ELSE "stage"]
    /\ UNCHANGED <<config, deployment_history, audit_log, clock, deployment, deployments, results, tampered>>

\* variant: the result never reports a rollback
rollout_result_no_rollback(call, cr) ==
    LET h == call.metrics_history
    IN  [stages_completed |-> Len(h),
         rollback_triggered |-> FALSE,
         rollback_reason |-> [present |-> FALSE],
         rollback_stage |-> "None",
         final_traffic_percentage |-> IF Len(h) > 0 THEN h[Len(h)].traffic_percentage ELSE 0]

\* execute_rollout, lines 267-276: the result dictionary
rollout_result(call, cr) ==
    LET h == call.metrics_history
    IN  [stages_completed |-> Len(h),
         rollback_triggered |-> cr.rollback_triggered,
         rollback_reason |-> cr.rollback_reason,
         rollback_stage |-> IF cr.rollback_triggered THEN h[Len(h)].stage ELSE "None",
         final_traffic_percentage |-> IF Len(h) > 0 THEN h[Len(h)].traffic_percentage ELSE 0]

\* deploy, lines 224-263: the rollout returned
RolloutReturn(c) ==
    /\ At(c, "rollout_return")
    /\ LET rr == rollout_result(calls[c], canary)
           d1 == [deployment[c] EXCEPT !.canary_metrics = calls[c].metrics_history]
           g1 == log_event([Governance(c) EXCEPT !.dep = d1],
                     "canary_completed", "canary_rollout",
                     [stages_completed |-> rr.stages_completed,
                      rollback_triggered |-> rr.rollback_triggered,
                      rollback_stage |-> rr.rollback_stage,
                      final_traffic |-> rr.final_traffic_percentage])
       IN  IF rr.rollback_triggered
           THEN LET d2 == [g1.dep EXCEPT !.status = ROLLED_BACK,
                                         !.rollback_reason = rr.rollback_reason,
                                         !.completed = TRUE]
                    g2 == log_event([g1 EXCEPT !.dep = d2],
                              "rollback_executed", "automated_rollback",
                              [stage |-> rr.rollback_stage,
                               reason |-> rr.rollback_reason])
                IN  /\ Commit(c, g2)
                    /\ results' = record_result(results, g2.audit_log, g2.dep,
                                      FALSE, FALSE, TRUE,
                                      rr.final_traffic_percentage < 100)
                    /\ calls' = [calls EXCEPT ![c] = Return(@)]
           ELSE /\ Commit(c, g1)
                /\ Goto(c, "complete")
                /\ UNCHANGED results
    /\ UNCHANGED <<config, deployment_history, deployments, canary, tampered>>

\* deploy, lines 265-279 and 294-295: success
Complete(c) ==
    /\ At(c, "complete")
    /\ LET d1 == [deployment[c] EXCEPT !.status = COMPLETED, !.completed = TRUE]
           g1 == log_event([Governance(c) EXCEPT !.dep = d1],
                     "deployment_completed", "success", [final_status |-> "success"])
       IN  /\ Commit(c, g1)
           /\ results' = record_result(results, g1.audit_log, g1.dep,
                                       TRUE, FALSE, FALSE, FALSE)
    /\ deployments' = Append(deployments, c)
    /\ calls' = [calls EXCEPT ![c] = Return(@)]
    /\ UNCHANGED <<config, deployment_history, canary, tampered>>

\* deploy, lines 281-295: the except handler
Except(c) ==
    /\ At(c, "except")
    /\ LET d1 == [deployment[c] EXCEPT !.status = FAILED, !.completed = TRUE]
           g1 == log_event([Governance(c) EXCEPT !.dep = d1],
                     "deployment_failed", "exception", [error |-> calls[c].error])
       IN  /\ Commit(c, g1)
           /\ results' = record_result(results, g1.audit_log, g1.dep,
                                       FALSE, TRUE, FALSE, FALSE)
    /\ deployments' = Append(deployments, c)
    /\ calls' = [calls EXCEPT ![c] = Return(@)]
    /\ UNCHANGED <<config, deployment_history, canary, tampered>>

Step(c) ==
    \/ LogStarted(c)
    \/ ContextStep(c)
    \/ RiskStep(c)
    \/ BudgetStep(c)
    \/ GovernanceStep(c)
    \/ GateStep(c)
    \/ CanaryStart(c)
    \/ \E rnd \in StageDraws : StageStep(c, rnd)
    \/ RolloutReturn(c)
    \/ Complete(c)
    \/ Except(c)

Deploy ==
    \E service \in Services, context \in Contexts, fs \in FailureStages :
        DeployCreate(service, context, fs, {})

Next ==
    \/ Deploy
    \/ \E c \in 1..MaxDeploys : Step(c)

Spec == Init /\ [][Next]_vars

\* ------------------------------------------------- unexpected faults
\* deploy called with faults that will be raised at the given places
DeployFaulty ==
    \E service \in Services, context \in Contexts, fs \in FailureStages,
       faults \in FaultSets \ {{}} :
        DeployCreate(service, context, fs, faults)

\* a fault raised by Deployment(...) at lines 105-109: nothing was created
CreateFault ==
    /\ CanCall
    /\ \E service \in Services, context \in Contexts, fs \in FailureStages :
          calls' = Append(calls,
              [NewCall(service, context, fs, {"create"}) EXCEPT
                   !.pc = "done", !.outcome = "raised", !.error = "fault"])
    /\ UNCHANGED <<config, deployment_history, audit_log, clock, deployment, deployments, results,
                   canary, tampered>>

\* a fault raised inside the try block (lines 118-279) is caught at line 281
Raise(c) ==
    /\ Running(c)
    /\ calls[c].pc \in calls[c].faults \cap InTry
    /\ calls' = [calls EXCEPT ![c].pc = "except", ![c].error = "fault"]
    /\ UNCHANGED <<config, deployment_history, audit_log, clock, deployment, deployments, results,
                   canary, tampered>>

\* a fault raised by the first log_audit_event (lines 111-116), which is
\* outside the try block, leaves deploy
PropagateStart(c) ==
    /\ Running(c)
    /\ calls[c].pc = "log_started"
    /\ "log_started" \in calls[c].faults
    /\ calls' = [calls EXCEPT ![c].pc = "done", ![c].outcome = "raised",
                              ![c].error = "fault"]
    /\ UNCHANGED <<config, deployment_history, audit_log, clock, deployment, deployments, results,
                   canary, tampered>>

\* a fault raised by log_audit_event inside the except handler (lines
\* 285-290), after the status was set at line 282, leaves deploy
PropagateHandler(c) ==
    /\ Running(c)
    /\ calls[c].pc = "except"
    /\ "except" \in calls[c].faults
    /\ deployment' = [deployment EXCEPT ![c].status = FAILED, ![c].completed = TRUE]
    /\ calls' = [calls EXCEPT ![c].pc = "done", ![c].outcome = "raised",
                              ![c].error = "fault"]
    /\ UNCHANGED <<config, deployment_history, audit_log, clock, deployments, results, canary, tampered>>

NextFault ==
    \/ Next
    \/ DeployFaulty
    \/ CreateFault
    \/ \E c \in 1..MaxDeploys : Raise(c) \/ PropagateStart(c) \/ PropagateHandler(c)

SpecFault == Init /\ [][NextFault]_vars

\* ------------------------------------------- modification of the log
\* the fields of an AuditEntry other than the hash
EntryFields ==
    {"timestamp", "deployment_id", "event_type", "actor", "action", "details",
     "risk_score", "confidence", "policies_evaluated", "policies_violated"}

\* a value of the field's type that differs from the value v it holds
Altered(field, v) ==
    CASE field \in {"timestamp", "deployment_id"} -> v + 1
      [] field \in {"event_type", "action"} -> "forged"
      [] field = "actor" -> IF v = "human_reviewer" THEN "ai_agent" ELSE "human_reviewer"
      [] field = "details" -> [forged |-> TRUE]
      [] field \in {"risk_score", "confidence"} -> IF v = None THEN 0 ELSE None
      [] field \in {"policies_evaluated", "policies_violated"} ->
             IF v = <<>> THEN <<"forged">> ELSE <<>>

\* somebody with access to the engine assigns to a field of a logged entry
\* (AuditEntry is a plain, non-frozen dataclass); done once, between calls
Tamper(k, field) ==
    /\ tampered = {}
    /\ \A c \in 1..Len(calls) : calls[c].outcome # "running"
    /\ k \in 1..Len(audit_log)
    /\ audit_log' = [audit_log EXCEPT ![k][field] = Altered(field, @)]
    /\ tampered' = tampered \cup {k}
    /\ UNCHANGED <<config, deployment_history, clock, deployment, deployments, results, canary, calls>>

NextTamper ==
    \/ Next
    \/ \E k \in 1..Len(audit_log), field \in EntryFields : Tamper(k, field)

SpecTamper == Init /\ [][NextTamper]_vars

\* ------------------------------------------------- compliance reports
\* variant: the integrity flag looks at the whole log, not at the deployment
generate_compliance_report_whole_log(log, dep, now) ==
    LET deployment_events == SelectSeq(log, LAMBDA e : e.deployment_id = dep.id)
    IN  [deployment_id |-> dep.id,
         generated_at |-> now,
         summary |->
            [total_events |-> Len(deployment_events),
             status |-> dep.status,
             policies_violated |->
                 UNION {{deployment_events[k].policies_violated[j] :
                            j \in 1..Len(deployment_events[k].policies_violated)} :
                        k \in 1..Len(deployment_events)},
             human_interventions |->
                 Len(SelectSeq(deployment_events, LAMBDA e : e.actor = "human_reviewer"))],
         timeline |->
            [k \in 1..Len(deployment_events) |->
                [timestamp |-> deployment_events[k].timestamp,
                 event |-> deployment_events[k].event_type,
                 action |-> deployment_events[k].action,
                 actor |-> deployment_events[k].actor,
                 risk_score |-> deployment_events[k].risk_score]],
         audit_integrity |->
            \A k \in 1..Len(log) : log[k].hash = calculate_hash(log[k])]

\* GovernanceEngine.generate_compliance_report, given the audit log, the
\* deployment and datetime.now()
generate_compliance_report(log, dep, now) ==
    LET deployment_events == SelectSeq(log, LAMBDA e : e.deployment_id = dep.id)
    IN  [deployment_id |-> dep.id,
         generated_at |-> now,
         summary |->
            [total_events |-> Len(deployment_events),
             status |-> dep.status,
             policies_violated |->
                 UNION {{deployment_events[k].policies_violated[j] :
                            j \in 1..Len(deployment_events[k].policies_violated)} :
                        k \in 1..Len(deployment_events)},
             human_interventions |->
                 Len(SelectSeq(deployment_events, LAMBDA e : e.actor = "human_reviewer"))],
         timeline |->
            [k \in 1..Len(deployment_events) |->
                [timestamp |-> deployment_events[k].timestamp,
                 event |-> deployment_events[k].event_type,
                 action |-> deployment_events[k].action,
                 actor |-> deployment_events[k].actor,
                 risk_score |-> deployment_events[k].risk_score]],
         audit_integrity |->
            \A k \in 1..Len(deployment_events) :
                deployment_events[k].hash = calculate_hash(deployment_events[k])]

\* services and contexts of the deployments that are reported on: with and
\* without a required approval
ReportServices == {s \in Services : s.id \in {"svc-pay", "svc-log"}}

ReportContexts == {x \in Contexts : x.change_size_lines = 100}

\* the fields somebody assigns to before a report is generated: one that is
\* hashed, one that is counted, one that moves the entry to another deployment
ReportTamperFields == {"timestamp", "actor", "deployment_id"}

\* governed pipelines with simulated approvals, with or without risk scoring
InitReport ==
    /\ Init
    /\ Disabled(config) \subseteq {"enable_risk_scoring"}
    /\ config.autonomy_level = "governed"
    /\ config.simulate_human_approval
    /\ deployment_history.failures = 0

ReportDeploy ==
    \E service \in ReportServices, context \in ReportContexts :
        DeployCreate(service, context, None, {})

\* generate_compliance_report is called for the deployment a deploy call
\* returned; the caller keeps the report, here with the log it was made from
Report(c) ==
    /\ c \in 1..Len(calls)
    /\ calls[c].pc = "done"
    /\ "report" \notin DOMAIN calls[c]
    /\ \A b \in 1..Len(calls) : calls[b].outcome # "running"
    /\ calls' = [calls EXCEPT ![c] =
           [f \in DOMAIN calls[c] \cup {"report", "report_log"} |->
               IF f = "report"
               THEN generate_compliance_report(audit_log, deployment[c], clock)
               ELSE IF f = "report_log" THEN audit_log
               ELSE calls[c][f]]]
    /\ UNCHANGED <<config, deployment_history, audit_log, clock, deployment, deployments, results, canary, tampered>>

NextReport ==
    \/ ReportDeploy
    \/ \E c \in 1..MaxDeploys : Step(c)
    \/ \E k \in 1..Len(audit_log), field \in ReportTamperFields : Tamper(k, field)
    \/ \E c \in 1..MaxDeploys : Report(c)

SpecReport == InitReport /\ [][NextReport]_vars

\* ------------------------------------------------- concurrent deploy calls
\* the number of deploy calls in flight at once on one pipeline
MaxInFlight == 2

\* pipelines used concurrently: the full auto-approving pipeline and the one
\* without risk scoring, under the default autonomy level
ConcConfigs ==
    {cfg \in Configs :
        /\ cfg.autonomy_level = "governed"
        /\ cfg.simulate_human_approval
        /\ Disabled(cfg) \subseteq {"enable_risk_scoring"}}

\* the deployments made concurrently: small changes to low-tier services
ConcServices == {service \in Services : service.tier = LOW}
ConcContexts ==
    {context \in Contexts : ~context.has_db_migration /\ ~context.is_hotfix}

InitConc ==
    /\ Init
    /\ config \in ConcConfigs
    /\ deployment_history.failures = 0

\* deploy is entered by another thread while earlier calls are still running
DeployConcurrent(service, context, failure_stage) ==
    /\ Len(calls) < MaxInFlight
    /\ LET id == Len(calls) + 1
       IN  /\ calls' = Append(calls, NewCall(service, context, failure_stage, {}))
           /\ deployment' = deployment @@ (id :> NewDeployment(id, service))
    /\ UNCHANGED <<config, deployment_history, audit_log, clock, deployments, results, canary, tampered>>

NextConc ==
    \/ \E service \in ConcServices, context \in ConcContexts, fs \in FailureStages :
          DeployConcurrent(service, context, fs)
    \/ \E c \in 1..MaxInFlight : Step(c)

SpecConc == InitConc /\ [][NextConc]_vars

\* --------------------------------------------- concurrent _record_result
\* the flags deploy passes to _record_result (lines 164, 189, 257-261, 279,
\* 292)
RecordFlags ==
    { [success |-> TRUE,  failed |-> FALSE, rolled_back |-> FALSE, canary_caught |-> FALSE],
      [success |-> FALSE, failed |-> TRUE,  rolled_back |-> FALSE, canary_caught |-> FALSE],
      [success |-> FALSE, failed |-> FALSE, rolled_back |-> TRUE,  canary_caught |-> TRUE],
      [success |-> FALSE, failed |-> FALSE, rolled_back |-> TRUE,  canary_caught |-> FALSE] }

\* the counters _record_result increments, in statement order
CounterOrder ==
    <<"total_deployments", "successful_deployments", "failed_deployments",
      "rolled_back_deployments", "canary_caught_issues", "safety_violations">>

\* the condition under which _record_result increments counter f
Increments(c, f) ==
    CASE f = "total_deployments"       -> TRUE
      [] f = "successful_deployments"  -> calls[c].flags.success
      [] f = "failed_deployments"      -> calls[c].flags.failed
      [] f = "rolled_back_deployments" -> calls[c].flags.rolled_back
      [] f = "canary_caught_issues"    -> calls[c].flags.canary_caught
      [] f = "safety_violations"       ->
             check_safety_violation(audit_log, pipeline_policies, deployment[c])

\* the call moves on to the statement of the next counter, or returns
NextCounter(call) ==
    IF call.n = Len(CounterOrder)
    THEN [call EXCEPT !.pc = "done", !.outcome = "returned"]
    ELSE [call EXCEPT !.pc = "load", !.n = @ + 1]

InitCounters ==
    /\ Init
    /\ AllPillars(config)
    /\ config.autonomy_level = "governed"
    /\ config.simulate_human_approval
    /\ deployment_history.failures = 0

\* a deploy call of some thread reaches its _record_result call
RecordResultCall(service, flags) ==
    /\ Len(calls) < MaxInFlight
    /\ LET id == Len(calls) + 1
           status == IF flags.success THEN COMPLETED
                     ELSE IF flags.failed THEN FAILED ELSE ROLLED_BACK
       IN  /\ calls' = Append(calls, [pc |-> "load", outcome |-> "running",
                                      flags |-> flags, n |-> 1, tmp |-> 0])
           /\ deployment' = deployment @@
                  (id :> [NewDeployment(id, service) EXCEPT !.status = status,
                                                            !.completed = TRUE])
    /\ UNCHANGED <<config, deployment_history, audit_log, clock, deployments, results, canary, tampered>>

\* "self.results.f += 1", first half: the attribute is read (or the if
\* statement guarding it is false and the statement is skipped)
RecordLoad(c) ==
    /\ Running(c)
    /\ calls[c].pc = "load"
    /\ LET f == CounterOrder[calls[c].n]
       IN  IF Increments(c, f)
           THEN calls' = [calls EXCEPT ![c].pc = "store", ![c].tmp = results[f]]
           ELSE calls' = [calls EXCEPT ![c] = NextCounter(@)]
    /\ UNCHANGED <<config, deployment_history, audit_log, clock, deployment, deployments, results, canary, tampered>>

\* "self.results.f += 1", second half: the sum is stored in the attribute
RecordStore(c) ==
    /\ Running(c)
    /\ calls[c].pc = "store"
    /\ LET f == CounterOrder[calls[c].n]
       IN  results' = [results EXCEPT ![f] = calls[c].tmp + 1]
    /\ calls' = [calls EXCEPT ![c] = NextCounter(@)]
    /\ UNCHANGED <<config, deployment_history, audit_log, clock, deployment, deployments, canary, tampered>>

NextCounters ==
    \/ \E service \in ConcServices, flags \in RecordFlags :
          RecordResultCall(service, flags)
    \/ \E c \in 1..MaxInFlight : RecordLoad(c) \/ RecordStore(c)

SpecCounters == InitCounters /\ [][NextCounters]_vars

\* -------------------------------------------- concurrent log_audit_event
\* the events each in-flight deployment logs, in order: event type, action
LogEvents ==
    << [event_type |-> "deployment_started",   action |-> "initialize"],
       [event_type |-> "canary_completed",     action |-> "canary_rollout"],
       [event_type |-> "deployment_completed", action |-> "success"] >>

InitLog == InitCounters

\* a thread creates its Deployment and is about to log its first event
LogCall(service) ==
    /\ Len(calls) < MaxInFlight
    /\ LET id == Len(calls) + 1
       IN  /\ calls' = Append(calls, [pc |-> "entry", outcome |-> "running",
                                      n |-> 1, entry |-> [present |-> FALSE]])
           /\ deployment' = deployment @@ (id :> NewDeployment(id, service))
    /\ UNCHANGED <<config, deployment_history, audit_log, clock, deployments, results, canary, tampered>>

\* log_audit_event, lines 243-254: the entry is built, its timestamp read.
\* The calls are taken to run within one tick of the clock: the timestamps
\* decide nothing in these steps.
LogEntry(c) ==
    /\ Running(c)
    /\ calls[c].pc = "entry"
    /\ LET ev == LogEvents[calls[c].n]
       IN  calls' = [calls EXCEPT
               ![c].pc = "append",
               ![c].entry = AuditEntry(clock, deployment[c].id, ev.event_type,
                                "ai_agent", ev.action, [n |-> calls[c].n],
                                None, None, <<>>, <<>>)]
    /\ UNCHANGED <<config, deployment_history, audit_log, clock, deployment, deployments, results, canary, tampered>>

\* log_audit_event, line 256: self.audit_log.append(entry)
LogAppend(c) ==
    /\ Running(c)
    /\ calls[c].pc = "append"
    /\ audit_log' = Append(audit_log, calls[c].entry)
    /\ calls' = [calls EXCEPT ![c].pc = "trail"]
    /\ UNCHANGED <<config, deployment_history, clock, deployment, deployments, results, canary, tampered>>

\* log_audit_event, line 257: deployment.add_audit_event(...), then the
\* thread goes on to its next event or is finished
LogTrail(c) ==
    /\ Running(c)
    /\ calls[c].pc = "trail"
    /\ deployment' = [deployment EXCEPT ![c] =
           add_audit_event(@, clock, calls[c].entry.event_type, calls[c].entry)]
    /\ calls' = [calls EXCEPT ![c] =
           IF @.n = Len(LogEvents)
           THEN [@ EXCEPT !.pc = "done", !.outcome = "returned"]
           ELSE [@ EXCEPT !.pc = "entry", !.n = @ + 1]]
    /\ UNCHANGED <<config, deployment_history, audit_log, clock, deployments, results, canary, tampered>>

NextLog ==
    \/ \E service \in ConcServices : LogCall(service)
    \/ \E c \in 1..MaxInFlight : LogEntry(c) \/ LogAppend(c) \/ LogTrail(c)

SpecLog == InitLog /\ [][NextLog]_vars

\* ------------------------------------------ check_slo_compliance on its own
\* how many times check_slo_compliance is called on the same metrics
MaxChecks == 2

\* SLOConfig objects a controller is constructed with
SLOConfigs ==
    { DefaultSLOConfig,
      [error_rate_threshold |-> 10000, latency_p50_threshold_ms |-> 100,
       latency_p99_threshold_ms |-> 400, success_rate_threshold |-> 990000] }

\* CanaryMetrics objects with each field below, at and above the threshold
MetricsAround(slo) ==
    { [stage |-> "1%", traffic_percentage |-> 1, duration_seconds |-> 300,
       error_rate |-> slo.error_rate_threshold + de,
       latency_p50_ms |-> slo.latency_p50_threshold_ms + d50,
       latency_p99_ms |-> slo.latency_p99_threshold_ms + d99,
       success_rate |-> slo.success_rate_threshold + ds,
       slo_violations |-> 0] :
      de \in {-1, 0, 1}, d50 \in {-1, 0, 1}, d99 \in {-1, 0, 1}, ds \in {-1, 0, 1} }

\* the controller before any rollout and after one that rolled back
ControllerStates ==
    { NewCanaryRollout,
      [current_stage_index |-> 1, rollback_triggered |-> TRUE,
       rollback_reason |-> [present |-> TRUE, value |-> <<"error_rate">>]] }

InitSLO ==
    /\ InitCounters
    /\ canary \in ControllerStates

\* a caller obtains a metrics object and starts checking it
SLOCheckCall(slo, metrics) ==
    /\ calls = <<>>
    /\ calls' = <<[pc |-> "check", outcome |-> "none", slo |-> slo,
                   metrics0 |-> metrics, metrics |-> metrics,
                   canary0 |-> canary, returned |-> <<>>]>>
    /\ UNCHANGED <<config, deployment_history, audit_log, clock, deployment, deployments, results, canary, tampered>>

\* one call of check_slo_compliance on the caller's metrics object
SLOCheck(c) ==
    /\ calls[c].pc = "check"
    /\ LET r == check_slo_compliance_call(canary, calls[c].slo, calls[c].metrics)
           n == Len(calls[c].returned) + 1
       IN  /\ canary' = r.self
           /\ calls' = [calls EXCEPT ![c].metrics = r.metrics,
                                     ![c].returned = Append(@, r.result),
                                     ![c].pc = IF n >= MaxChecks THEN "done" ELSE "check",
                                     ![c].outcome = IF n >= MaxChecks THEN "returned" ELSE "none"]
    /\ UNCHANGED <<config, deployment_history, audit_log, clock, deployment, deployments, results, tampered>>

NextSLO ==
    \/ \E slo \in SLOConfigs : \E metrics \in MetricsAround(slo) : SLOCheckCall(slo, metrics)
    \/ \E c \in 1..Len(calls) : SLOCheck(c)

SpecSLO == InitSLO /\ [][NextSLO]_vars

\* --------------------------------------------- evaluate_policies on its own
\* the length of the policy lists an engine is constructed with
MaxPolicies == 2

\* GovernancePolicy objects: the default ones, a warning and a block on the
\* critical tier, and one with an action evaluate_policies does not know
PolicyPool ==
    {DEFAULT_POLICIES[k] : k \in 1..Len(DEFAULT_POLICIES)} \cup
    { [name |-> "critical_tier_notice", condition |-> {FragCritical},
       action |-> "warn", severity |-> "low"],
      [name |-> "critical_tier_freeze", condition |-> {FragCritical},
       action |-> "block", severity |-> "critical"],
      [name |-> "large_change_notify", condition |-> {FragSize},
       action |-> "notify", severity |-> "low"] }

PolicySets == UNION {[1..n -> PolicyPool] : n \in 0..MaxPolicies}

\* risk scores passed to evaluate_policies: 0.0, 0.5 and 0.8
RiskScores == {0, (ScoreScale * 5) \div 10, (ScoreScale * 8) \div 10}

InitPolicies == InitCounters

\* GovernanceEngine.__init__: an empty or missing list means the default policies
engine_policies(policies) == IF policies = <<>> THEN DEFAULT_POLICIES ELSE policies

\* one call of evaluate_policies on an engine constructed with the given list
EvaluatePolicies(policies, service, context, risk_score) ==
    /\ calls = <<>>
    /\ calls' = <<[pc |-> "done", outcome |-> "returned",
                   policies |-> engine_policies(policies), service |-> service,
                   context |-> context, risk_score |-> risk_score,
                   policy_result |->
                       evaluate_policies(engine_policies(policies), service,
                                         context, risk_score)]>>
    /\ UNCHANGED <<config, deployment_history, audit_log, clock, deployment, deployments, results, canary, tampered>>

NextPolicies ==
    \E policies \in PolicySets, service \in Services, context \in Contexts,
       risk_score \in RiskScores :
        EvaluatePolicies(policies, service, context, risk_score)

SpecPolicies == InitPolicies /\ [][NextPolicies]_vars

\* ------------------------------------------------ RiskScorer construction
\* normalised weights are kept in 1/NormScale
NormScale == 1000000

\* stand-in for the largest finite float, in 1/WeightScale: a sum above it
\* is inf
FloatMax == 1000

\* values a field of RiskWeights is given: negative, zero, 0.5, the largest float
WeightValues == {-50, 0, 50, FloatMax}

WeightFields ==
    {"service_tier", "service_health", "historical_failure_rate",
     "blast_radius", "change_complexity", "timing_risk"}

\* RiskWeights objects passed to RiskScorer
WeightConfigs == {DefaultWeights} \cup [WeightFields -> WeightValues]

\* RiskWeights.total
RiskWeights_total(w) ==
    w.service_tier + w.service_health + w.historical_failure_rate
    + w.blast_radius + w.change_complexity + w.timing_risk

\* RiskScorer.__init__, lines 71-82: the weights after construction in
\* 1/NormScale, or the ZeroDivisionError of the first division
RiskScorer_init(weights) ==
    LET total == RiskWeights_total(weights)
    IN  IF total = WeightScale
        THEN [raised |-> FALSE,
              weights |-> [f \in WeightFields |-> weights[f] * (NormScale \div WeightScale)]]
        ELSE IF total = 0
        THEN [raised |-> TRUE,
              weights |-> [f \in WeightFields |-> weights[f] * (NormScale \div WeightScale)]]
        ELSE IF total > FloatMax
        THEN [raised |-> FALSE, weights |-> [f \in WeightFields |-> 0]]
        ELSE [raised |-> FALSE,
              weights |-> [f \in WeightFields |-> (weights[f] * NormScale) \div total]]

InitWeights == InitCounters

\* RiskScorer(weights=...) is constructed
RiskScorerCall(weights) ==
    /\ calls = <<>>
    /\ LET r == RiskScorer_init(weights)
       IN  calls' = <<[pc |-> "done",
                      outcome |-> IF r.raised THEN "raised" ELSE "returned",
                      weights0 |-> weights, weights |-> r.weights]>>
    /\ UNCHANGED <<config, deployment_history, audit_log, clock, deployment, deployments, results, canary, tampered>>

NextWeights == \E weights \in WeightConfigs : RiskScorerCall(weights)

SpecWeights == InitWeights /\ [][NextWeights]_vars

\* --------------------------------------------- calculate_risk_score alone
\* services with every tier, no or many dependencies, and each health input
\* at either end of its range
RiskServices ==
    { [id |-> "svc", name |-> "service", tier |-> tier,
       num_dependencies |-> deps, error_budget_remaining |-> budget,
       recent_failure_rate |-> failure, availability_99d |-> availability] :
      tier \in {CRITICAL, HIGH, MEDIUM, LOW}, deps \in {0, 12},
      budget \in {0, ServiceScale}, failure \in {0, ServiceScale},
      availability \in {0, ServiceScale} }

\* the contexts of deploy, and a clean record with many past successes
RiskContexts ==
    Contexts \cup
    { [change_size_lines |-> 100, files_changed |-> 5, has_db_migration |-> FALSE,
       has_config_change |-> FALSE, is_hotfix |-> FALSE,
       time_of_day_hour |-> 10, day_of_week |-> 2,
       similar_past_failures |-> 0, similar_past_successes |-> 10, rag_confidence |-> 90] }

\* normalised weights of a scorer: the defaults, health and tier only, and
\* everything but health and tier
ScorerWeights ==
    { DefaultWeights,
      [service_tier |-> 50, service_health |-> 50, historical_failure_rate |-> 0,
       blast_radius |-> 0, change_complexity |-> 0, timing_risk |-> 0],
      [service_tier |-> 0, service_health |-> 0, historical_failure_rate |-> 25,
       blast_radius |-> 25, change_complexity |-> 25, timing_risk |-> 25] }

InitRisk == InitCounters

\* one call of calculate_risk_score on a scorer with the given weights
RiskScoreCall(weights, service, context) ==
    /\ calls = <<>>
    /\ calls' = <<[pc |-> "done", outcome |-> "returned", weights |-> weights,
                   service |-> service, context |-> context,
                   risk_assessment |->
                       calculate_risk_score(weights, config.autonomy_level,
                                            service, context, 1)]>>
    /\ UNCHANGED <<config, deployment_history, audit_log, clock, deployment, deployments, results, canary, tampered>>

NextRisk ==
    \E weights \in ScorerWeights, service \in RiskServices, context \in RiskContexts :
        RiskScoreCall(weights, service, context)

SpecRisk == InitRisk /\ [][NextRisk]_vars

\* ------------------------------------------------- KillSwitch on its own
\* the number of calls made on one KillSwitch instance
MaxKillChecks == 4

\* the metrics simulate_stage_metrics produces for the first stage of a
\* healthy low-tier service: normal, spike, and either with forced failure
KillMetrics ==
    LET service == CHOOSE s \in Services : s.id = "svc-log"
        context == CHOOSE x \in Contexts : x.change_size_lines = 100 /\ ~x.has_db_migration
        ra == calculate_risk_score(DefaultWeights, "governed", service, context, 1)
    IN  { simulate_stage_metrics(DefaultSLOConfig, DEFAULT_STAGES[1], service, ra,
                                 introduce_failure, rnd) :
          introduce_failure \in BOOLEAN, rnd \in StageDraws }

\* baseline p99 latencies (ms) the caller passes to check
KillBaselines == {30, 200}

InitKill == InitCounters

\* the KillSwitch instance after the calls made so far
KillSwitchNow == IF calls = <<>> THEN DefaultKillSwitch ELSE calls[Len(calls)].ks

\* one call of KillSwitch.check
KillCheck(metrics, baseline_latency_p99) ==
    /\ Len(calls) < MaxKillChecks
    /\ LET r == KillSwitch_check(KillSwitchNow, metrics, baseline_latency_p99)
       IN  calls' = Append(calls,
                       [pc |-> "done", outcome |-> "returned", method |-> "check",
                        metrics |-> metrics, baseline |-> baseline_latency_p99,
                        should_kill |-> r.should_kill, reason |-> r.reason,
                        ks |-> r.ks])
    /\ UNCHANGED <<config, deployment_history, audit_log, clock, deployment, deployments, results, canary, tampered>>

\* one call of KillSwitch.reset, after a kill
KillReset ==
    /\ Len(calls) < MaxKillChecks
    /\ calls # <<>>
    /\ calls[Len(calls)].method = "check"
    /\ calls[Len(calls)].should_kill
    /\ calls' = Append(calls,
                    [pc |-> "done", outcome |-> "returned", method |-> "reset",
                     ks |-> KillSwitch_reset(KillSwitchNow)])
    /\ UNCHANGED <<config, deployment_history, audit_log, clock, deployment, deployments, results, canary, tampered>>

NextKill ==
    \/ \E metrics \in KillMetrics, baseline \in KillBaselines : KillCheck(metrics, baseline)
    \/ KillReset

SpecKill == InitKill /\ [][NextKill]_vars

\* ------------------------------------- KillSwitch.check at its thresholds
\* the baseline p99 latency (ms) of the calls at the thresholds
EdgeBaseline == 30

\* CanaryMetrics with the error rate well below, just below, at and just
\* above the kill threshold and the p99 latency just below, at and just above
\* the multiple of EdgeBaseline; slo_violations as simulate_stage_metrics
\* counts them against the default SLOs
KillEdgeMetrics ==
    { [stage |-> "1%", traffic_percentage |-> 1, duration_seconds |-> 300,
       error_rate |-> error_rate, latency_p50_ms |-> 50, latency_p99_ms |-> p99,
       success_rate |-> RateScale - error_rate,
       slo_violations |->
             (IF error_rate > DefaultSLOConfig.error_rate_threshold THEN 1 ELSE 0)
           + (IF p99 > DefaultSLOConfig.latency_p99_threshold_ms THEN 1 ELSE 0)
           + (IF RateScale - error_rate < DefaultSLOConfig.success_rate_threshold
              THEN 1 ELSE 0)] :
      error_rate \in {3000,
                      DefaultKillSwitch.error_rate_kill_threshold - 1,
                      DefaultKillSwitch.error_rate_kill_threshold,
                      DefaultKillSwitch.error_rate_kill_threshold + 1},
      p99 \in {EdgeBaseline * DefaultKillSwitch.latency_spike_multiplier - 1,
               EdgeBaseline * DefaultKillSwitch.latency_spike_multiplier,
               EdgeBaseline * DefaultKillSwitch.latency_spike_multiplier + 1} }

NextKillEdge ==
    \/ \E metrics \in KillEdgeMetrics : KillCheck(metrics, EdgeBaseline)
    \/ KillReset

SpecKillEdge == InitKill /\ [][NextKillEdge]_vars

\* ----------------------------------- conditions outside the five shapes
\* a term of a condition string that no substring test of
\* _evaluate_condition looks for
FragOther == "context.is_hotfix"

\* the condition strings of the five default policies: the shapes
\* _evaluate_condition is written for
RecognizedShapes == {DEFAULT_POLICIES[k].condition : k \in 1..Len(DEFAULT_POLICIES)}

\* conditions of custom policies: a foreign term alone, an empty string, half
\* of the Friday window, the hour alone, and a foreign term combined with the
\* tier test or the size test
OtherConditions ==
    { {FragOther}, {}, {FragFriday}, {FragHour16},
      {FragCritical, FragOther}, {FragSize, FragOther} }

CustomPolicies ==
    { [name |-> "custom_policy", condition |-> condition, action |-> action,
       severity |-> "high"] :
      condition \in OtherConditions, action \in {"block", "require_approval"} }

\* an engine constructed with one custom policy, alone or after the defaults
NextShapes ==
    \E policy \in CustomPolicies, service \in Services, context \in Contexts,
       risk_score \in RiskScores :
        \/ EvaluatePolicies(<<policy>>, service, context, risk_score)
        \/ EvaluatePolicies(Append(DEFAULT_POLICIES, policy), service, context, risk_score)

SpecShapes == InitPolicies /\ [][NextShapes]_vars

\* ------------------------------------------------------ ladder selection
\* execute_rollout, line 240: the ladder chosen for a risk assessment that
\* calculate_risk_score produced
LadderCall(weights, service, context) ==
    /\ calls = <<>>
    /\ LET ra == calculate_risk_score(weights, config.autonomy_level, service, context, 1)
       IN  calls' = <<[pc |-> "done", outcome |-> "returned", weights |-> weights,
                      service |-> service, context |-> context,
                      risk_assessment |-> ra,
                      stages |-> get_stages(ra.risk_level),
                      metrics_history |-> <<>>]>>
    /\ UNCHANGED <<config, deployment_history, audit_log, clock, deployment, deployments, results, canary, tampered>>

NextLadder ==
    \E weights \in ScorerWeights, service \in RiskServices, context \in RiskContexts :
        LadderCall(weights, service, context)

SpecLadder == InitRisk /\ [][NextLadder]_vars

\* ------------------------------------- scorers of every autonomy level
\* AutonomyLevel
AllAutonomyLevels == {"shadow", "assisted", "governed", "learning"}

\* normalised weights: the defaults, blast radius only, and tier and blast
\* radius in equal parts
AutonomyWeights ==
    { DefaultWeights,
      [service_tier |-> 0, service_health |-> 0, historical_failure_rate |-> 0,
       blast_radius |-> 100, change_complexity |-> 0, timing_risk |-> 0],
      [service_tier |-> 50, service_health |-> 0, historical_failure_rate |-> 0,
       blast_radius |-> 50, change_complexity |-> 0, timing_risk |-> 0] }

\* a small weekday change with or without migration and config change
AutonomyContexts ==
    { [change_size_lines |-> 100, files_changed |-> 5, has_db_migration |-> mig,
       has_config_change |-> cfg, is_hotfix |-> FALSE,
       time_of_day_hour |-> 10, day_of_week |-> 2,
       similar_past_failures |-> 0, similar_past_successes |-> 10, rag_confidence |-> 90] :
      mig \in BOOLEAN, cfg \in BOOLEAN }

\* RiskScorer(weights, autonomy_level).calculate_risk_score(service, context, id)
AutonomyScoreCall(autonomy_level, weights, service, context) ==
    /\ calls = <<>>
    /\ calls' = <<[pc |-> "done", outcome |-> "returned",
                   autonomy_level |-> autonomy_level, weights |-> weights,
                   service |-> service, context |-> context,
                   risk_assessment |->
                       calculate_risk_score(weights, autonomy_level, service, context, 1)]>>
    /\ UNCHANGED <<config, deployment_history, audit_log, clock, deployment, deployments, results, canary, tampered>>

NextAutonomy ==
    \E autonomy_level \in AllAutonomyLevels, weights \in AutonomyWeights,
       service \in RiskServices, context \in AutonomyContexts :
        AutonomyScoreCall(autonomy_level, weights, service, context)

SpecAutonomy == InitRisk /\ [][NextAutonomy]_vars

\* ---------------------------------------- CanaryRollout on its own
\* the number of execute_rollout calls made on one CanaryRollout instance
MaxRollouts == 2

\* the failure_stage arguments: none, the first and the second stage
RolloutFailureStages == {None, 0, 1}

\* a healthy low-tier service and its assessment for a small change
RolloutService == CHOOSE s \in Services : s.id = "svc-log"

RolloutContext ==
    CHOOSE x \in Contexts : x.change_size_lines = 100 /\ ~x.has_db_migration

InitRollout == InitCounters

\* execute_rollout, lines 243-245: a call begins on the instance as it is
RolloutStart(failure_stage) ==
    /\ Len(calls) < MaxRollouts
    /\ \A c \in 1..Len(calls) : ~Running(c)
    /\ LET ra == calculate_risk_score(pipeline_weights, config.autonomy_level,
                                      RolloutService, RolloutContext, 1)
           call == [NewCall(RolloutService, RolloutContext, failure_stage, {})
                       EXCEPT !.pc = "stage", !.risk_assessment = ra,
                              !.stages = get_stages(ra.risk_level)]
       IN  calls' = Append(calls,
                       [f \in DOMAIN call \cup {"result"} |->
                           IF f = "result" THEN [present |-> FALSE] ELSE call[f]])
    /\ UNCHANGED <<config, deployment_history, audit_log, clock, deployment, deployments, results, canary, tampered>>

\* execute_rollout, lines 267-276: the call returns its result dictionary
RolloutFinish(c) ==
    /\ At(c, "rollout_return")
    /\ LET rr == rollout_result(calls[c], canary)
       IN  calls' = [calls EXCEPT
               ![c].pc = "done", ![c].outcome = "returned",
               ![c].result = [present |-> TRUE, status |-> calls[c].final_status,
                              stages_completed |-> rr.stages_completed,
                              rollback_triggered |-> rr.rollback_triggered,
                              rollback_reason |-> rr.rollback_reason,
                              rollback_stage |-> rr.rollback_stage]]
    /\ UNCHANGED <<config, deployment_history, audit_log, clock, deployment, deployments, results, canary, tampered>>

\* CanaryRollout.reset between two calls
RolloutReset ==
    /\ calls # <<>>
    /\ \A c \in 1..Len(calls) : ~Running(c)
    /\ canary' = NewCanaryRollout
    /\ UNCHANGED <<config, deployment_history, audit_log, clock, deployment, deployments, results, calls, tampered>>

NextRollout ==
    \/ \E failure_stage \in RolloutFailureStages : RolloutStart(failure_stage)
    \/ \E c \in 1..Len(calls), rnd \in StageDraws : StageStep(c, rnd)
    \/ \E c \in 1..Len(calls) : RolloutFinish(c)
    \/ RolloutReset

SpecRollout == InitRollout /\ [][NextRollout]_vars

\* ================================================================ claims
CallIds == 1..Len(calls)

Done(c) == calls[c].pc = "done"

Returned(c) == calls[c].outcome = "returned"

\* the audit-log entries of deployment d
EntriesOf(d) == {k \in 1..Len(audit_log) : audit_log[k].deployment_id = d}

HasEvent(d, event_type) ==
    \E k \in EntriesOf(d) : audit_log[k].event_type = event_type

HumanEvents(d) == {k \in EntriesOf(d) : audit_log[k].actor = "human_reviewer"}

\* the call is in, or has been in, the canary rollout
EnteredCanary(c) ==
    \/ calls[c].pc \in {"stage", "rollout_return"}
    \/ Len(calls[c].metrics_history) > 0
    \/ (c \in DOMAIN deployment /\ deployment[c].status = CANARY_STARTED)

PastBudget(c) == calls[c].pc \notin {"log_started", "context", "risk", "budget"}

PastGate(c) == PastBudget(c) /\ calls[c].pc \notin {"governance", "gate"}

\* an audit entry of d lists a violated policy whose action is block
BlockViolated(d) ==
    \E k \in EntriesOf(d) :
        \E j \in 1..Len(audit_log[k].policies_violated) :
            \E p \in 1..Len(pipeline_policies) :
                /\ pipeline_policies[p].name = audit_log[k].policies_violated[j]
                /\ pipeline_policies[p].action = "block"

\* C1: no deployment whose audit entries list a violated block policy is
\* Completed; check_safety_violation is false for every deployment and the
\* safety_violations counter stays 0.
C1_NoBypassedBlock ==
    /\ \A d \in DOMAIN deployment :
          /\ BlockViolated(d) => deployment[d].status # COMPLETED
          /\ ~check_safety_violation(audit_log, pipeline_policies, deployment[d])
    /\ results.safety_violations = 0

C1_Witness ==
    \E d \in DOMAIN deployment :
        /\ BlockViolated(d)
        /\ Done(d) /\ Returned(d)
        /\ results.total_deployments > 0

\* C2: every entry of the engine's audit log has a stored hash equal to the
\* hash recomputed from its own fields.
C2_AuditIntegrity ==
    \A k \in 1..Len(audit_log) : audit_log[k].hash = calculate_hash(audit_log[k])

C2_Witness ==
    /\ Len(audit_log) >= 6
    /\ \E k \in 1..Len(audit_log) : audit_log[k].event_type = "policies_evaluated"
    /\ \E c \in CallIds : Done(c) /\ deployment[c].status = COMPLETED

\* C3: an audit entry of which a field other than the hash was changed after
\* creation fails the integrity check (stored hash = recomputed hash).
C3_TamperDetected ==
    \A k \in tampered : audit_log[k].hash # calculate_hash(audit_log[k])

\* C4 as stated: deploy returns Completed, RolledBack or Failed, and Pending
\* exactly when policy evaluation required approval and auto-approval is off.
C4_PendingIffApprovalRequired ==
    \A c \in CallIds : Returned(c) =>
        /\ deployment[c].status \in {COMPLETED, ROLLED_BACK, FAILED, PENDING}
        /\ deployment[c].status = PENDING <=>
              (calls[c].policy_result.requires_approval
               /\ ~config.simulate_human_approval)

\* C4 amended: deploy returns Completed, RolledBack or Failed, and Pending
\* exactly when policy evaluation allowed the deployment, required approval
\* and auto-approval is off; never ContextGathered, RiskAssessed or
\* CanaryStarted.
C4_TerminalOrPending ==
    \A c \in CallIds : Returned(c) =>
        /\ deployment[c].status \in {COMPLETED, ROLLED_BACK, FAILED, PENDING}
        /\ deployment[c].status \notin {CONTEXT_GATHERED, RISK_ASSESSED, CANARY_STARTED}
        /\ deployment[c].status = PENDING <=>
              (calls[c].policy_result.allowed
               /\ calls[c].policy_result.requires_approval
               /\ ~config.simulate_human_approval)

C4_Witness ==
    \E c \in CallIds :
        /\ Returned(c)
        /\ deployment[c].status = PENDING
        /\ calls[c].policy_result.requires_approval

\* C5: a fault raised at any step of deploy never leaves deploy: the call
\* returns, the deployment is Failed and a deployment_failed entry carries
\* the fault.
C5_NoFaultEscapes ==
    \A c \in CallIds : (Done(c) /\ calls[c].error = "fault") =>
        /\ Returned(c)
        /\ deployment[c].status = FAILED
        /\ \E k \in EntriesOf(c) :
              /\ audit_log[k].event_type = "deployment_failed"
              /\ audit_log[k].details.error = "fault"

\* C6: when evaluate_policies reports allowed = false, deploy ends Failed,
\* logs a deployment_blocked event carrying the blocking actions and runs
\* no canary stage.
C6_BlockedFails ==
    \A c \in CallIds : ~calls[c].policy_result.allowed =>
        /\ ~EnteredCanary(c)
        /\ deployment[c].canary_metrics = <<>>
        /\ PastGate(c) =>
              /\ Done(c) /\ Returned(c)
              /\ deployment[c].status = FAILED
              /\ \E k \in EntriesOf(c) :
                    /\ audit_log[k].event_type = "deployment_blocked"
                    /\ audit_log[k].action = "policy_violation"
                    /\ audit_log[k].details.actions_required
                           = calls[c].policy_result.actions_required
                    /\ \E j \in 1..Len(audit_log[k].details.actions_required) :
                          audit_log[k].details.actions_required[j].action = "BLOCKED"

C6_Witness ==
    \E c \in CallIds :
        /\ ~calls[c].policy_result.allowed
        /\ calls[c].policy_result.requires_approval
        /\ Done(c)
        /\ deployment[c].status = FAILED

\* the deployment failed on the error-budget gate
FailedOnBudgetGate(c) ==
    \E k \in EntriesOf(c) :
        /\ audit_log[k].event_type = "deployment_blocked"
        /\ audit_log[k].action = "error_budget_exhausted"

BudgetGateBody ==
    \A c \in CallIds :
        /\ PastBudget(c) =>
              (FailedOnBudgetGate(c) <=> calls[c].service.error_budget_remaining <= 0)
        /\ FailedOnBudgetGate(c) =>
              /\ Done(c) /\ Returned(c)
              /\ deployment[c].status = FAILED
              /\ \E k \in EntriesOf(c) :
                    /\ audit_log[k].event_type = "deployment_blocked"
                    /\ audit_log[k].details.reason = "ERROR_BUDGET_EXHAUSTED"
              /\ ~HasEvent(c, "policies_evaluated")
              /\ calls[c].policy_result = EmptyPolicyResult
              /\ deployment[c].canary_metrics = <<>>
              /\ ~EnteredCanary(c)

\* C7 as stated: deploy fails on the error-budget gate iff the budget is
\* <= 0; then it ends Failed naming budget exhaustion, with no policy
\* evaluation and no canary stage.
C7_BudgetGateAlways == BudgetGateBody

\* C7 amended: with the risk-scoring pillar enabled, deploy fails on the
\* error-budget gate iff the budget is <= 0 (a positive budget below 0.1
\* passes); then it ends Failed naming budget exhaustion, with no policy
\* evaluation performed or logged and no canary stage.
C7_BudgetGate == config.enable_risk_scoring => BudgetGateBody

C7_Witness ==
    \E c \in CallIds :
        /\ FailedOnBudgetGate(c)
        /\ Done(c)
        /\ calls[c].service.error_budget_remaining = 0

\* C8: when policy evaluation yields allowed and requires_approval, (a) with
\* auto-approval exactly one human_reviewer event is logged before the
\* canary starts and the deployment goes on to Completed or RolledBack;
\* (b) without it deploy returns Pending with an awaiting_approval event, no
\* canary stage and no later status change.
C8_ApprovalGate ==
    \A c \in CallIds :
        (calls[c].policy_result.allowed /\ calls[c].policy_result.requires_approval) =>
            /\ calls[c].pc = "gate" =>
                  /\ HumanEvents(c) = {}
                  /\ ~HasEvent(c, "awaiting_approval")
                  /\ ~EnteredCanary(c)
            /\ (PastGate(c) /\ config.simulate_human_approval) =>
                  /\ Cardinality(HumanEvents(c)) = 1
                  /\ ~HasEvent(c, "awaiting_approval")
                  /\ deployment[c].status # PENDING
                  /\ Done(c) => (Returned(c)
                                 /\ deployment[c].status \in {COMPLETED, ROLLED_BACK})
            /\ (PastGate(c) /\ ~config.simulate_human_approval) =>
                  /\ Done(c) /\ Returned(c)
                  /\ deployment[c].status = PENDING
                  /\ HumanEvents(c) = {}
                  /\ audit_log[CHOOSE k \in EntriesOf(c) :
                                  \A m \in EntriesOf(c) : m <= k].event_type
                         = "awaiting_approval"
                  /\ deployment[c].canary_metrics = <<>>
                  /\ ~EnteredCanary(c)

C8_Witness ==
    \E c \in CallIds :
        /\ calls[c].policy_result.allowed
        /\ calls[c].policy_result.requires_approval
        /\ config.simulate_human_approval
        /\ EnteredCanary(c)
        /\ Cardinality(HumanEvents(c)) = 1

\* Scenario B: a Critical-tier service with positive error budget and a
\* context whose risk score is >= 0.7
ScenarioB(c) ==
    /\ calls[c].service.tier = CRITICAL
    /\ calls[c].service.error_budget_remaining > 0
    /\ calls[c].risk_assessment.present
    /\ calls[c].risk_assessment.risk_score >= HUMAN_REVIEW_THRESHOLD

ScenarioBOutcome(c) ==
    /\ calls[c].risk_assessment.requires_human_review
    /\ Done(c) =>
          IF config.simulate_human_approval
          THEN Len(deployment[c].canary_metrics) > 0
          ELSE deployment[c].status = PENDING

C10_AutonomyCeiling ==
    \A c \in CallIds :
        (calls[c].risk_assessment.requires_human_review /\ EnteredCanary(c)) =>
            /\ HumanEvents(c) # {}
            /\ config.simulate_human_approval

\* the outcome execute_stage gives for recorded metrics
StageOutcome(metrics) ==
    IF check_slo_compliance(pipeline_slo, metrics)[1] THEN "success" ELSE "rollback"

\* the call's execute_rollout has returned
RolloutOver(c) ==
    /\ Len(calls[c].stages) > 0
    /\ calls[c].pc \in {"rollout_return", "complete", "done"}

\* positions of the history whose stage yielded Rollback
RollbackAt(c) ==
    {j \in 1..Len(calls[c].metrics_history) :
        StageOutcome(calls[c].metrics_history[j]) = "rollback"}

\* C11: the metrics history of a rollout is at every moment a prefix of the
\* selected ladder in ladder order, only its last record can be a Rollback,
\* and when the rollout has returned it ends exactly at the first Rollback
\* or, without one, at the final stage; the deployment keeps all of it.
C11_HistoryIsLadderPrefix ==
    \A c \in CallIds :
        LET h  == calls[c].metrics_history
            st == calls[c].stages
        IN  /\ Len(h) <= Len(st)
            /\ \A j \in 1..Len(h) : h[j].stage = st[j].name
            /\ RollbackAt(c) \subseteq {Len(h)}
            /\ (calls[c].pc = "stage" => RollbackAt(c) = {} /\ Len(h) < Len(st))
            /\ RolloutOver(c) =>
                 /\ (RollbackAt(c) = {} => Len(h) = Len(st))
                 /\ Len(h) >= 1
            /\ (RolloutOver(c) /\ calls[c].pc # "rollout_return") =>
                 deployment[c].canary_metrics = h

\* a rollout rolled back at its third stage, the two records before kept
C11_Witness ==
    \E c \in CallIds :
        /\ Done(c)
        /\ Len(calls[c].metrics_history) = 3
        /\ RollbackAt(c) = {3}

\* the failure reason execute_stage gives for the last record of the history
LastStageReason(c) ==
    LET h == calls[c].metrics_history
    IN  [present |-> TRUE, stage |-> h[Len(h)].stage,
         violations |-> check_slo_compliance(pipeline_slo, h[Len(h)])[2]]

\* C12: a deployment one of whose canary stages yielded Rollback is never
\* Completed and is returned RolledBack, with that stage's violation reason
\* as rollback_reason and a rollback_executed audit event naming the stage;
\* and a deployment is RolledBack only if one of its stages yielded Rollback.
C12_RollbackIffStageRollback ==
    \A c \in CallIds :
        /\ (RollbackAt(c) # {} /\ c \in DOMAIN deployment) =>
               deployment[c].status # COMPLETED
        /\ (Done(c) /\ Returned(c) /\ RollbackAt(c) # {}) =>
               /\ deployment[c].status = ROLLED_BACK
               /\ deployment[c].rollback_reason = LastStageReason(c)
               /\ \E k \in EntriesOf(c) :
                      /\ audit_log[k].event_type = "rollback_executed"
                      /\ audit_log[k].details.stage = LastStageReason(c).stage
                      /\ audit_log[k].details.reason = LastStageReason(c)
        /\ (c \in DOMAIN deployment /\ deployment[c].status = ROLLED_BACK) =>
               RollbackAt(c) # {}

\* a returned deployment whose second stage broke its SLOs naturally
C12_Witness ==
    \E c \in CallIds :
        /\ Done(c) /\ Returned(c)
        /\ calls[c].simulate_failure_stage = None
        /\ RollbackAt(c) = {2}
        /\ deployment[c].status = ROLLED_BACK

\* the traffic fractions of a metrics history never decrease
NonDecreasingTraffic(h) ==
    \A j \in 1..(Len(h) - 1) : h[j].traffic_percentage <= h[j + 1].traffic_percentage

\* C13: a deployment that ends Completed with the canary enabled has as many
\* metrics records as the ladder of its risk level has stages (7 for high
\* and critical risk, 5 otherwise), in ladder order, non-decreasing in
\* traffic and ending at full traffic, and check_safety_violation is false.
C13_CompletedRanWholeLadder ==
    \A c \in CallIds :
        (Done(c) /\ Returned(c) /\ deployment[c].status = COMPLETED
                 /\ config.enable_canary) =>
            LET h == deployment[c].canary_metrics
                n == IF deployment[c].risk_assessment.risk_level \in {"high", "critical"}
                     THEN 7 ELSE 5
            IN  /\ Len(h) = n
                /\ h[Len(h)].traffic_percentage = 100
                /\ NonDecreasingTraffic(h)
                /\ \A j \in 1..Len(h) : StageOutcome(h[j]) = "success"
                /\ ~check_safety_violation(audit_log, pipeline_policies, deployment[c])

\* a high-risk deployment completed over the 7-stage ladder
C13_Witness ==
    \E c \in CallIds :
        /\ Done(c) /\ Returned(c)
        /\ deployment[c].status = COMPLETED
        /\ config.enable_canary
        /\ Len(deployment[c].canary_metrics) = 7

\* a rollout on the 5-stage ladder with failure forced at stage index 1
\* has returned
ScenarioC(c) ==
    /\ calls[c].pc = "rollout_return"
    /\ calls[c].stages = DEFAULT_STAGES
    /\ calls[c].simulate_failure_stage = 1

\* the result of such a rollout is a rollback at the second stage, "5%",
\* with exactly 2 metrics records
ScenarioCOutcome(c) ==
    LET rr == rollout_result(calls[c], canary)
    IN  /\ calls[c].final_status = ROLLED_BACK
        /\ rr.rollback_triggered
        /\ rr.rollback_stage = DEFAULT_STAGES[2].name
        /\ rr.rollback_stage = "5%"
        /\ rr.stages_completed = 2
        /\ Len(calls[c].metrics_history) = 2

\* C14 as stated: every rollout on the 5-stage ladder with failure forced at
\* stage index 1 rolls back at "5%" with exactly 2 metrics records.
C14_ScenarioCAlways ==
    \A c \in CallIds : ScenarioC(c) => ScenarioCOutcome(c)

\* C14, amended: every rollout on the 5-stage ladder with failure forced at
\* stage index 1 is rolled back; it rolls back at "5%" with exactly 2
\* metrics records when the metrics of stage index 0 met the SLOs, and at
\* "1%" with exactly 1 record when stage index 0 itself broke them.
C14_ScenarioC ==
    \A c \in CallIds :
        ScenarioC(c) =>
            LET h  == calls[c].metrics_history
                rr == rollout_result(calls[c], canary)
            IN  /\ calls[c].final_status = ROLLED_BACK
                /\ rr.rollback_triggered
                /\ IF StageOutcome(h[1]) = "success"
                   THEN ScenarioCOutcome(c)
                   ELSE /\ rr.rollback_stage = "1%"
                        /\ rr.stages_completed = 1
                        /\ Len(h) = 1

\* the forced failure at stage index 1 was reached and rolled the rollout back
C14_Witness ==
    \E c \in CallIds :
        /\ ScenarioC(c)
        /\ StageOutcome(calls[c].metrics_history[1]) = "success"
        /\ ScenarioCOutcome(c)

\* baseline p99 latencies (ms) a kill-switch monitor can be given
BaselineLatencies == {30, 100}

\* the first record of history h, from position j on, at which a kill
\* switch in state ks that is shown the records in order says kill; 0 if none
RECURSIVE FirstKill(_, _, _, _)
FirstKill(ks, h, j, baseline) ==
    IF j > Len(h) THEN 0
    ELSE LET r == KillSwitch_check(ks, h[j], baseline)
         IN  IF r.should_kill THEN j ELSE FirstKill(r.ks, h, j + 1, baseline)

\* C15: if the metrics of a stage of a rollout satisfy a kill-switch
\* condition, the rollout is rolled back at that stage, whatever the
\* per-stage SLO evaluation of the same metrics says.
C15_KillSwitchPreempts ==
    \A c \in CallIds : \A baseline \in BaselineLatencies :
        LET h == calls[c].metrics_history
            k == FirstKill(DefaultKillSwitch, h, 1, baseline)
        IN  (RolloutOver(c) /\ k > 0) =>
                /\ Len(h) = k
                /\ calls[c].final_status = ROLLED_BACK

\* the number of entries of the engine's log that belong to deployment d
EventCount(log, d) ==
    Cardinality({k \in 1..Len(log) : log[k].deployment_id = d})

\* C16: after the deployment_started event, every step of deploy that
\* changes the status of a deployment logs exactly one audit event for it,
\* and every step that logs an audit event for it changes its status.
C16_OneEventPerTransition ==
    [][\A c \in DOMAIN deployment :
          (c \in DOMAIN deployment' /\ calls[c].pc # "log_started") =>
              LET added == EventCount(audit_log', c) - EventCount(audit_log, c)
                  moved == deployment'[c].status # deployment[c].status
              IN  /\ moved => added = 1
                  /\ added > 0 => moved]_vars

\* C17: with deploy calls interleaved, a deployment is returned RolledBack
\* exactly when one of its own canary stages yielded Rollback, and its
\* rollback reason is the violation reason of its own failing stage.
C17_IndependentDeployments ==
    \A c \in CallIds :
        (Done(c) /\ Returned(c)) =>
            /\ deployment[c].status = ROLLED_BACK <=> RollbackAt(c) # {}
            /\ deployment[c].status = ROLLED_BACK =>
                   deployment[c].rollback_reason = LastStageReason(c)

\* the number of _record_result calls that passed flag
FlagCount(flag) == Cardinality({c \in CallIds : calls[c].flags[flag]})

\* C18: when the interleaved _record_result calls have all returned,
\* total_deployments equals the number of calls and each of the successful,
\* failed, rolled-back and canary-caught counters equals the number of calls
\* that passed its flag.
C18_NoLostUpdates ==
    (\A c \in CallIds : Done(c)) =>
        /\ results.total_deployments = Len(calls)
        /\ results.successful_deployments = FlagCount("success")
        /\ results.failed_deployments = FlagCount("failed")
        /\ results.rolled_back_deployments = FlagCount("rolled_back")
        /\ results.canary_caught_issues = FlagCount("canary_caught")

\* the entries of the engine's log with deployment id d, in log order
LogOf(d) == SelectSeq(audit_log, LAMBDA e : e.deployment_id = d)

\* the number of audit_log.append calls thread c has made
Appended(c) ==
    IF calls[c].pc \in {"entry", "append"} THEN calls[c].n - 1 ELSE calls[c].n

\* C19: under any interleaving of log_audit_event calls of in-flight
\* deployments no entry is lost (the log holds, for each deployment, one
\* entry per append made for it, in the order its events were logged), the
\* deployment's own audit_trail corresponds one-to-one and in the same order
\* to its entries in the log (the entry of a call that is between its two
\* appends being the only one not yet in the trail), and entries already in
\* the log are never removed or modified.
C19_AuditAppend ==
    /\ [](\A d \in CallIds :
            LET sub   == LogOf(d)
                trail == deployment[d].audit_trail
            IN  /\ Len(sub) = Appended(d)
                /\ \A j \in 1..Len(sub) :
                       /\ sub[j].event_type = LogEvents[j].event_type
                       /\ sub[j].details.n = j
                /\ Len(trail) = IF calls[d].pc = "trail" THEN Len(sub) - 1 ELSE Len(sub)
                /\ \A j \in 1..Len(trail) :
                       /\ trail[j].details = sub[j]
                       /\ trail[j].event_type = sub[j].event_type)
    /\ [][/\ Len(audit_log') >= Len(audit_log)
          /\ \A k \in 1..Len(audit_log) : audit_log'[k] = audit_log[k]]_vars

\* two deployments have logged all their events, their entries alternating
\* in the engine's log
C19_Witness ==
    /\ Len(calls) = 2
    /\ \A c \in CallIds : Done(c)
    /\ Len(audit_log) = 2 * Len(LogEvents)
    /\ \A k \in 1..Len(audit_log) : audit_log[k].deployment_id = 2 - (k % 2)
    /\ \A d \in CallIds : Len(deployment[d].audit_trail) = Len(LogEvents)

\* the names of a sequence of policies, in order
PolicyNames(policies) == [k \in 1..Len(policies) |-> policies[k].name]

\* the policies of call c whose condition matched, in policy order
MatchedPolicies(c) ==
    SelectSeq(calls[c].policies,
              LAMBDA p : evaluate_condition(p.condition, calls[c].service,
                                            calls[c].context, calls[c].risk_score))

\* some matched policy of call c has the given action
MatchedWith(c, action) ==
    \E k \in 1..Len(MatchedPolicies(c)) : MatchedPolicies(c)[k].action = action

\* C20: evaluate_policies lists every policy in policies_evaluated in policy
\* order and exactly the policies whose condition matched, in order, in
\* policies_violated; allowed is false iff a matched policy blocks;
\* requires_approval is true iff a matched policy requires approval; the
\* warnings are exactly the matched warn policies, which change neither flag.
C20_EvaluatePolicies ==
    \A c \in CallIds :
        LET r == calls[c].policy_result
        IN  /\ r.policies_evaluated = PolicyNames(calls[c].policies)
            /\ r.policies_violated = PolicyNames(MatchedPolicies(c))
            /\ r.allowed = ~MatchedWith(c, "block")
            /\ r.requires_approval = MatchedWith(c, "require_approval")
            /\ [k \in 1..Len(r.warnings) |-> r.warnings[k].policy] =
                   PolicyNames(SelectSeq(MatchedPolicies(c), LAMBDA p : p.action = "warn"))
            /\ Len(r.actions_required) =
                   Len(SelectSeq(MatchedPolicies(c),
                           LAMBDA p : p.action \in {"block", "require_approval"}))

\* an evaluation in which only a warn policy matched, of two policies
C20_Witness ==
    \E c \in CallIds :
        /\ Len(calls[c].policies) = 2
        /\ Len(MatchedPolicies(c)) = 1
        /\ MatchedWith(c, "warn")
        /\ calls[c].policy_result.allowed
        /\ ~calls[c].policy_result.requires_approval
        /\ Len(calls[c].policy_result.warnings) = 1


\* the clauses of the SLO that the metrics fail
FailingClauses(slo, metrics) ==
    {cl \in {"error_rate", "latency_p50", "latency_p99", "success_rate"} :
        \/ cl = "error_rate" /\ ~(metrics.error_rate <= slo.error_rate_threshold)
        \/ cl = "latency_p50" /\ ~(metrics.latency_p50_ms <= slo.latency_p50_threshold_ms)
        \/ cl = "latency_p99" /\ ~(metrics.latency_p99_ms <= slo.latency_p99_threshold_ms)
        \/ cl = "success_rate" /\ ~(metrics.success_rate >= slo.success_rate_threshold)}

\* C21: check_slo_compliance returns compliant = true iff error_rate, p50 and
\* p99 are at or below their thresholds and success_rate is at or above its
\* threshold, and the number of violation messages equals the number of
\* failing clauses.
C21_SLOCompliance ==
    \A c \in CallIds : \A k \in 1..Len(calls[c].returned) :
        LET r == calls[c].returned[k]
            failing == FailingClauses(calls[c].slo, calls[c].metrics0)
        IN  /\ r[1] = (failing = {})
            /\ Len(r[2]) = Cardinality(failing)

\* a check of metrics whose four values sit exactly on the thresholds
C21_Witness ==
    \E c \in CallIds :
        /\ Len(calls[c].returned) >= 1
        /\ calls[c].metrics0.error_rate = calls[c].slo.error_rate_threshold
        /\ calls[c].metrics0.latency_p50_ms = calls[c].slo.latency_p50_threshold_ms
        /\ calls[c].metrics0.latency_p99_ms = calls[c].slo.latency_p99_threshold_ms
        /\ calls[c].metrics0.success_rate = calls[c].slo.success_rate_threshold
        /\ calls[c].returned[1][1]


C22_CounterPartition ==
    /\ results.total_deployments =
           results.successful_deployments + results.failed_deployments
           + results.rolled_back_deployments
    /\ results.canary_caught_issues <= results.rolled_back_deployments

\* a deploy call has returned a rolled-back deployment caught by the canary
C22_Witness ==
    \E c \in CallIds :
        /\ Done(c) /\ Returned(c)
        /\ deployment[c].status = ROLLED_BACK
        /\ results.rolled_back_deployments >= 1
        /\ results.canary_caught_issues >= 1

\* the deploy calls that have recorded a result: those returned with a
\* deployment that is not left Pending
RecordedCalls == {c \in CallIds : Done(c) /\ Returned(c) /\ deployment[c].status # PENDING}

\* C23 as stated: total_deployments equals the number of deploy calls made
C23_TotalEqualsCalls ==
    (\A c \in CallIds : Done(c)) => results.total_deployments = Len(calls)

\* C23: between deploy calls total_deployments equals the number of calls
\* that returned a Completed, Rolled Back or Failed deployment; a call that
\* returns a deployment awaiting approval (Pending) is not counted.
C23_TotalEqualsRecorded ==
    (\A c \in CallIds : Done(c)) => results.total_deployments = Cardinality(RecordedCalls)

\* one call has returned a Pending deployment and the total is still zero
C23_Witness ==
    \E c \in CallIds :
        /\ Done(c) /\ Returned(c)
        /\ deployment[c].status = PENDING
        /\ results.total_deployments = Cardinality(RecordedCalls)
        /\ results.total_deployments < Len(calls)


\* an audit entry of deployment d whose stored hash differs from its
\* recomputed hash
TamperedEntry(d) ==
    \E k \in EntriesOf(d) : audit_log[k].hash # calculate_hash(audit_log[k])

\* deployment d violated a require_approval policy and went on to the canary
\* or to completion without a human_approval event
ApprovalSkipped(d) ==
    /\ \E k \in EntriesOf(d) : \E j \in 1..Len(audit_log[k].policies_violated) :
           LET policy == policy_named(pipeline_policies, audit_log[k].policies_violated[j])
           IN  policy.found /\ policy.action = "require_approval"
    /\ deployment[d].status \in {CANARY_STARTED, COMPLETED, ROLLED_BACK}
    /\ ~HasEvent(d, "human_approval")

\* C25: check_safety_violation returns true for a deployment whenever one of
\* its audit entries has a stored hash that differs from the recomputed hash,
\* or a required approval was skipped.
C25_SafetyCheckSeesTampering ==
    \A d \in DOMAIN deployment :
        (TamperedEntry(d) \/ ApprovalSkipped(d))
            => check_safety_violation(audit_log, pipeline_policies, deployment[d])


\* the calls for whose deployment a compliance report has been generated
Reported == {c \in CallIds : "report" \in DOMAIN calls[c]}

\* positions, in the log the report of call c was made from, of the entries
\* carrying that deployment's id
ReportedEntries(c) ==
    {k \in 1..Len(calls[c].report_log) :
        calls[c].report_log[k].deployment_id = calls[c].report.deployment_id}

\* C24: a compliance report has audit_integrity = true iff every audit-log
\* entry with the deployment's id has a stored hash equal to its recomputed
\* hash; total_events is the number of those entries, the timeline lists them
\* in log order, and human_interventions is the number of them whose actor is
\* human_reviewer.
C24_ComplianceReport ==
    \A c \in Reported :
        LET log == calls[c].report_log
            r == calls[c].report
            own == ReportedEntries(c)
        IN  /\ r.audit_integrity = (\A k \in own : log[k].hash = calculate_hash(log[k]))
            /\ r.summary.total_events = Cardinality(own)
            /\ Len(r.timeline) = Cardinality(own)
            /\ \A i \in 1..Len(r.timeline) :
                   \E k \in own :
                       /\ Cardinality({m \in own : m <= k}) = i
                       /\ r.timeline[i].timestamp = log[k].timestamp
                       /\ r.timeline[i].event = log[k].event_type
                       /\ r.timeline[i].action = log[k].action
                       /\ r.timeline[i].actor = log[k].actor
            /\ r.summary.human_interventions =
                   Cardinality({k \in own : log[k].actor = "human_reviewer"})

\* a report on a deployment with a human approval, generated after an entry
\* of that deployment was modified so that its hash no longer matches
C24_Witness ==
    \E c \in Reported :
        /\ ~calls[c].report.audit_integrity
        /\ calls[c].report.summary.human_interventions >= 1
        /\ calls[c].report.summary.total_events >= 2


\* C26: for every RiskWeights configuration passed to RiskScorer the
\* construction completes and the six weights then sum to 1.0 within a
\* tolerance of 0.001.
C26_WeightsSumToOne ==
    \A c \in CallIds :
        /\ calls[c].outcome = "returned"
        /\ LET total == RiskWeights_total(calls[c].weights)
           IN  /\ total >= NormScale - NormScale \div 1000
               /\ total <= NormScale + NormScale \div 1000


\* the order of the risk levels
LevelRank(risk_level) ==
    CASE risk_level = "low" -> 0
      [] risk_level = "medium" -> 1
      [] risk_level = "high" -> 2
      [] risk_level = "critical" -> 3

\* C27: calculate_risk_score returns a score in [0,1]; the level is Critical
\* from 0.9, High from 0.7, Medium from 0.5 and Low below; and against every
\* other assessment of the same scorer a higher score never has a lower level.
C27_ScoreRangeAndLevels ==
    \A c \in CallIds :
        LET ra == calls[c].risk_assessment
        IN  /\ ra.risk_score >= 0 /\ ra.risk_score <= ScoreScale
            /\ ra.risk_level =
                   (IF ra.risk_score * 10 >= ScoreScale * 9 THEN "critical"
                    ELSE IF ra.risk_score * 10 >= ScoreScale * 7 THEN "high"
                    ELSE IF ra.risk_score * 10 >= ScoreScale * 5 THEN "medium"
                    ELSE "low")
            /\ \A service \in RiskServices, context \in RiskContexts :
                   LET other == calculate_risk_score(calls[c].weights, config.autonomy_level,
                                                     service, context, 2)
                   IN  other.risk_score >= ra.risk_score
                           => LevelRank(other.risk_level) >= LevelRank(ra.risk_level)

\* an assessment at the Critical level, and one of the same scorer that is
\* lower in score and in level
C27_Witness ==
    \E c \in CallIds :
        /\ calls[c].risk_assessment.risk_level = "critical"
        /\ \E service \in RiskServices, context \in RiskContexts :
               LET other == calculate_risk_score(calls[c].weights, config.autonomy_level,
                                                 service, context, 2)
               IN  /\ other.risk_score < calls[c].risk_assessment.risk_score
                   /\ other.risk_level = "high"


\* the k-th call on the kill switch is a check of metrics with at least one
\* SLO violation
ViolatingCheck(k) ==
    /\ calls[k].method = "check"
    /\ calls[k].metrics.slo_violations > 0

\* C29: whenever consecutive_failures consecutive check calls on one
\* KillSwitch each see metrics with at least one SLO violation, the last of
\* them returns should_kill = true.
C29_ConsecutiveTrigger ==
    \A k \in CallIds :
        LET n == calls[k].ks.consecutive_failures
        IN  (k >= n /\ \A j \in (k - n + 1)..k : ViolatingCheck(j))
                => calls[k].should_kill

\* C30: after a check call whose metrics have no SLO violation the
\* consecutive-failure counter of the kill switch is 0.
C30_CounterReset ==
    \A k \in CallIds :
        (calls[k].method = "check" /\ calls[k].metrics.slo_violations = 0)
            => calls[k].ks.failure_count = 0


\* the k-th call on the kill switch is a check whose metrics meet the
\* error-rate or the latency condition
ImmediateKill(k) ==
    /\ calls[k].method = "check"
    /\ \/ calls[k].metrics.error_rate >= calls[k].ks.error_rate_kill_threshold
       \/ calls[k].metrics.latency_p99_ms >=
              calls[k].baseline * calls[k].ks.latency_spike_multiplier

\* C31: KillSwitch.check returns should_kill = true with a reason whenever
\* error_rate >= the kill threshold or p99 >= multiplier x baseline, whatever
\* the consecutive-failure counter; it returns (false, no reason) only when
\* neither condition is met and the counter after the call is below N.
C31_ImmediateKill ==
    \A k \in CallIds :
        calls[k].method = "check" =>
            /\ ImmediateKill(k) => (calls[k].should_kill /\ calls[k].reason # "None")
            /\ ~calls[k].should_kill =>
                   /\ calls[k].reason = "None"
                   /\ ~ImmediateKill(k)
                   /\ calls[k].ks.failure_count < calls[k].ks.consecutive_failures

\* a check exactly at the error-rate threshold, and one exactly at the latency
\* threshold made with the counter at 1, both returning kill
C31_Witness ==
    \E j, k \in CallIds :
        /\ j > 1 /\ calls[j - 1].ks.failure_count = 1
        /\ calls[j].method = "check"
        /\ calls[j].metrics.error_rate < calls[j].ks.error_rate_kill_threshold
        /\ calls[j].metrics.latency_p99_ms =
               calls[j].baseline * calls[j].ks.latency_spike_multiplier
        /\ calls[j].should_kill
        /\ calls[k].method = "check"
        /\ calls[k].metrics.error_rate = calls[k].ks.error_rate_kill_threshold
        /\ calls[k].should_kill


\* the sequence s without its k-th element
WithoutAt(s, k) == [i \in 1..(Len(s) - 1) |-> IF i < k THEN s[i] ELSE s[i + 1]]

\* C32: a policy whose condition is not one of the five recognized shapes is
\* listed as evaluated, is never reported as violated, and changes neither
\* allowed nor requires_approval, for every service, context and risk score.
C32_UnrecognizedNeverViolated ==
    \A c \in CallIds : \A k \in 1..Len(calls[c].policies) :
        LET policy == calls[c].policies[k]
            r == calls[c].policy_result
            rest == evaluate_policies(WithoutAt(calls[c].policies, k), calls[c].service,
                                      calls[c].context, calls[c].risk_score)
        IN  policy.condition \notin RecognizedShapes =>
                /\ \E i \in 1..Len(r.policies_evaluated) : r.policies_evaluated[i] = policy.name
                /\ \A i \in 1..Len(r.policies_violated) : r.policies_violated[i] # policy.name
                /\ r.allowed = rest.allowed
                /\ r.requires_approval = rest.requires_approval


\* the traffic percentages of a ladder, in order
Traffic(stages) == [k \in 1..Len(stages) |-> stages[k].traffic_percentage]

\* C33: get_stages returns the 7-stage ladder 1,2,5,10,25,50,100 % iff the
\* risk level is High or Critical and the 5-stage ladder 1,5,25,50,100 %
\* otherwise; the traffic fractions of the ladder are strictly increasing,
\* the first is 1 % and the last is 100 %.
C33_LadderSelection ==
    \A c \in CallIds :
        (calls[c].risk_assessment.present /\ calls[c].stages # <<>>) =>
            LET stages == calls[c].stages
                level == calls[c].risk_assessment.risk_level
            IN  /\ (Traffic(stages) = <<1, 2, 5, 10, 25, 50, 100>>)
                       <=> (level \in {"high", "critical"})
                /\ (Traffic(stages) = <<1, 5, 25, 50, 100>>)
                       <=> (level \notin {"high", "critical"})
                /\ \A k \in 1..(Len(stages) - 1) :
                       stages[k].traffic_percentage < stages[k + 1].traffic_percentage
                /\ stages[1].traffic_percentage = 1
                /\ stages[Len(stages)].traffic_percentage = 100

\* the 7-stage ladder chosen for a Critical-level assessment
C33_Witness ==
    \E c \in CallIds :
        /\ calls[c].risk_assessment.present
        /\ calls[c].risk_assessment.risk_level = "critical"
        /\ Len(calls[c].stages) = 7


\* the documented maximum score of an autonomy level, in 1/ScoreScale
DocumentedMax(level) ==
    CASE level = "shadow"   -> ScoreScale
      [] level = "assisted" -> (3 * ScoreScale) \div 10
      [] level = "governed" -> (6 * ScoreScale) \div 10
      [] level = "learning" -> (8 * ScoreScale) \div 10

\* C34: requires_human_review is set exactly when the score is at least 0.7
\* or strictly above the maximum of the scorer's autonomy level (Shadow 1.0,
\* Assisted 0.3, Governed 0.6, Learning 0.8); a score equal to the maximum
\* and below 0.7 does not require review
C34_HumanReviewRule ==
    \A c \in CallIds :
        LET ra == calls[c].risk_assessment
            level == calls[c].autonomy_level
        IN  /\ ra.requires_human_review <=>
                   (ra.risk_score * 10 >= 7 * ScoreScale \/ ra.risk_score > DocumentedMax(level))
            /\ (ra.risk_score = DocumentedMax(level) /\ ra.risk_score * 10 < 7 * ScoreScale)
                   => ~ra.requires_human_review

\* a Governed scorer returned a score of exactly 0.6 without review
C34_Witness ==
    \E c \in CallIds :
        /\ calls[c].autonomy_level = "governed"
        /\ calls[c].risk_assessment.risk_score = DocumentedMax("governed")
        /\ ~calls[c].risk_assessment.requires_human_review


\* the place of an event in the documented order of a deployment's trail
EventRank(event_type) ==
    CASE event_type = "deployment_started" -> 1
      [] event_type = "context_gathered"   -> 2
      [] event_type = "risk_assessed"      -> 3
      [] event_type = "policies_evaluated" -> 4
      [] event_type = "human_approval"     -> 5
      [] event_type = "canary_completed"   -> 6
      [] OTHER                             -> 7

TrailHas(d, event_type) ==
    \E k \in 1..Len(deployment[d].audit_trail) :
        deployment[d].audit_trail[k].event_type = event_type

\* C35: the events of a deployment's audit trail appear in the order
\* deployment_started, context_gathered, risk_assessed, policies_evaluated,
\* (human_approval), canary_completed, final event; with all pillars enabled
\* no canary stage runs before policies_evaluated is logged, and a deployment
\* that ended Completed has context_gathered, risk_assessed,
\* policies_evaluated and canary_completed in its trail
C35_GateOrdering ==
    \A d \in DOMAIN deployment :
        LET trail == deployment[d].audit_trail
        IN  /\ \A j, k \in 1..Len(trail) :
                   j < k => EventRank(trail[j].event_type) < EventRank(trail[k].event_type)
            /\ (trail # <<>>) => trail[1].event_type = "deployment_started"
            /\ (AllPillars(config) /\ EnteredCanary(d)) => TrailHas(d, "policies_evaluated")
            /\ (AllPillars(config) /\ Done(d) /\ deployment[d].status = COMPLETED) =>
                   /\ TrailHas(d, "context_gathered")
                   /\ TrailHas(d, "risk_assessed")
                   /\ TrailHas(d, "policies_evaluated")
                   /\ TrailHas(d, "canary_completed")

\* a Completed deployment of the full pipeline that passed the human gate
C35_Witness ==
    \E d \in DOMAIN deployment :
        /\ AllPillars(config) /\ Done(d)
        /\ deployment[d].status = COMPLETED
        /\ TrailHas(d, "human_approval")
        /\ TrailHas(d, "deployment_completed")


\* the policy result of call c lists a violated policy with the given action
ViolatedWith(c, action) ==
    \E j \in 1..Len(calls[c].policy_result.policies_violated) :
        \E p \in 1..Len(pipeline_policies) :
            /\ pipeline_policies[p].name = calls[c].policy_result.policies_violated[j]
            /\ pipeline_policies[p].action = action

\* C36: when policy evaluation reports both a violated block policy and a
\* violated require_approval policy, deploy logs neither human_approval nor
\* awaiting_approval, is never Pending, and ends Failed, with or without
\* auto-approval
C36_BlockBeforeApproval ==
    \A c \in DOMAIN deployment :
        (ViolatedWith(c, "block") /\ ViolatedWith(c, "require_approval")) =>
            /\ ~HasEvent(c, "human_approval")
            /\ ~HasEvent(c, "awaiting_approval")
            /\ ~TrailHas(c, "human_approval")
            /\ ~TrailHas(c, "awaiting_approval")
            /\ deployment[c].status # PENDING
            /\ Done(c) => (Returned(c) /\ deployment[c].status = FAILED)

\* deploy returned for a deployment that violated both kinds of policy while
\* auto-approval is off
C36_Witness ==
    \E c \in DOMAIN deployment :
        /\ ViolatedWith(c, "block") /\ ViolatedWith(c, "require_approval")
        /\ calls[c].policy_result.requires_approval
        /\ ~config.simulate_human_approval
        /\ Done(c) /\ HasEvent(c, "deployment_blocked")


\* C37: the result of every execute_rollout call, also of a second call on
\* the same instance without a reset in between, has rollback_triggered
\* exactly when its status is RolledBack, and a rollback stage and reason
\* exactly when its status is RolledBack
C37_ResultOfCurrentRun ==
    \A c \in CallIds :
        calls[c].result.present =>
            LET r == calls[c].result
            IN  /\ r.rollback_triggered <=> (r.status = ROLLED_BACK)
                /\ (r.rollback_stage # "None") <=> (r.status = ROLLED_BACK)
                /\ r.rollback_reason.present <=> (r.status = ROLLED_BACK)


\* C38: with only the risk-scoring pillar switched off, a finished deploy
\* has evaluated the policies (with the neutral score 0.5) and is Failed
\* only if a policy blocked it
C38_RiskScoringOff ==
    \A d \in DOMAIN deployment :
        (Disabled(config) = {"enable_risk_scoring"} /\ Done(d)) =>
            /\ TrailHas(d, "policies_evaluated")
            /\ deployment[d].status = FAILED => TrailHas(d, "deployment_blocked")


\* C39: every deployment deploy has returned is in the pipeline's
\* deployments list exactly once, in call order, whatever its final status
C39_DeploymentsListComplete ==
    /\ \A c \in CallIds :
           (Done(c) /\ Returned(c)) =>
               Cardinality({k \in 1..Len(deployments) : deployments[k] = c}) = 1
    /\ \A j, k \in 1..Len(deployments) : j < k => deployments[j] < deployments[k]


\* failure_count of the kill switch before the k-th call
CountBefore(k) ==
    IF k = 1 THEN DefaultKillSwitch.failure_count ELSE calls[k - 1].ks.failure_count

\* the SLO check of the metrics handed to the k-th call: <<compliant, messages>>
StageCheck(k) == check_slo_compliance(pipeline_slo, calls[k].metrics)

\* slo_violations of simulated metrics equals the number of messages of the
\* SLO check, and is positive exactly when the stage is not compliant
ViolationCountAgrees ==
    \A k \in CallIds :
        calls[k].method = "check" =>
            /\ calls[k].metrics.slo_violations = Len(StageCheck(k)[2])
            /\ (calls[k].metrics.slo_violations > 0) <=> ~StageCheck(k)[1]

\* C40: slo_violations of every simulated metrics record equals the number
\* of violation messages check_slo_compliance returns for it, it is positive
\* exactly when execute_stage rolls back, and the kill switch's
\* consecutive-failure counter advances on exactly the non-compliant stages
C40_ViolationCountAndCounter ==
    /\ ViolationCountAgrees
    /\ \A k \in CallIds :
           calls[k].method = "check" =>
               ((calls[k].ks.failure_count = CountBefore(k) + 1) <=> ~StageCheck(k)[1])

====
